---- MODULE Spec2Model ----
(***************************************************************************)
(* Connect-4 move selection by Monte-Carlo tree search.                    *)
(*                                                                         *)
(* Three policy classes are modelled, told apart by the variable variant:  *)
(*   "A"  groups/Group A/policy.py   Aha   (win/block short-circuit, MCTS  *)
(*        with heuristic or fast rollouts)                                 *)
(*   "B"  groups/Group B/policy.py   Hello (plain MCTS, random rollouts)   *)
(*   "C"  groups/Group C/policy.py   LaMejorPoliticaConQvalues (as A, plus *)
(*        a value table blended into the UCB1 score, and a table-only      *)
(*        bypass)                                                          *)
(*                                                                         *)
(* Numbers.  The code works on floats; the model works on integers:        *)
(*   wins2          = 2 * wins          (rewards are 1.0, 0.5, 0.0)        *)
(*   exploration    in thousandths      (1414 is 1.414)                    *)
(*   peso_q         in hundredths       (30 is 0.3)                        *)
(*   table values   in thousandths      (-1000 .. 1000 is -1.0 .. 1.0)     *)
(*   UCB1 scores    in millionths; blended scores in 1e-8                  *)
(***************************************************************************)
EXTENDS Integers, Sequences, FiniteSets, TLC

VARIABLES
    variant,    \* which policy class the instance is
    cfg,        \* the instance's configuration (constructor arguments, table)
    board,      \* s, the board handed to act()
    tree,       \* the MCTS nodes of the running act() call; tree[1] is the root
    node,       \* act()'s local variable node (0 is None)
    jugador,    \* act()'s local variable current_player
    sim,        \* number of iterations of the simulation loop completed
    reward2,    \* 2 * reward of the last rollout
    pc,         \* where act() is
    result,     \* the column act() returned (-1: none yet)
    call,       \* how many act() calls this instance has started
    prev,       \* the column the previous act() call returned (-1: none)
    ruta,       \* the file train/q_table.pkl that mount() reads
    claves,     \* two (board, player, action) triples and their table keys
    agente,     \* the trainer's AgenteQ: Q, N, visitas_estado, epsilon and parameters
    partida,    \* the locals of Entrenador.jugar_partida
    entrenador, \* the Entrenador: episode number, tallies, phase results
    rollout,    \* the locals of a running _simulate call (<<>>: none)
    gui         \* the Connect4GUI object, its worker threads and Tk's pending events

vars == <<variant, cfg, board, tree, node, jugador, sim, reward2, pc, result, call, prev,
          ruta, claves, agente, partida, entrenador, rollout, gui>>

\* what a policy's act() works on, what the trainer works on, and the rest
policyVars == <<variant, cfg, board, tree, node, jugador, sim, reward2, result, call, prev,
                rollout>>

trainVars == <<agente, partida, entrenador>>

hostVars == <<ruta, claves, gui>>

(***************************************************************************)
(* ConnectState: the rules engine.                                         *)
(***************************************************************************)
ROWS == 6
COLS == 7

RowIdx == 0 .. (ROWS - 1)
ColIdx == 0 .. (COLS - 1)

EmptyBoard == [r \in RowIdx |-> [c \in ColIdx |-> 0]]

\* ConnectState(board, player)
ConnectState(b, p) == [board |-> b, player |-> p]

\* is_applicable(col): the column exists and its top cell is empty
is_applicable(st, col) == col \in ColIdx /\ st.board[0][col] = 0

\* get_free_cols(): the legal columns, ascending
get_free_cols(st) ==
    SelectSeq([i \in 1 .. COLS |-> i - 1], LAMBDA c : st.board[0][c] = 0)

\* the row a piece dropped in col comes to rest in
DropRow(b, col) == CHOOSE r \in RowIdx : b[r][col] = 0 /\ \A q \in RowIdx : b[q][col] = 0 => q <= r

\* transition(col): a new state, the piece of the player to move dropped, turn flipped
transition(st, col) ==
    LET r == DropRow(st.board, col)
    IN  [board  |-> [st.board EXCEPT ![r][col] = st.player],
         player |-> 0 - st.player]

\* the four directions a line can run in
Directions == {<<0, 1>>, <<1, 0>>, <<1, 1>>, <<1, -1>>}

\* four equal pieces of player p starting at (r, c) in direction d
FourFrom(b, p, r, c, d) ==
    /\ r + 3 * d[1] \in RowIdx
    /\ c + 3 * d[2] \in ColIdx
    /\ \A i \in 0 .. 3 : b[r + i * d[1]][c + i * d[2]] = p

HasFour(b, p) ==
    \E r \in RowIdx, c \in ColIdx :
        b[r][c] = p /\ \E d \in Directions : FourFrom(b, p, r, c, d)

\* get_winner(): -1 or 1 when that player has four in a row, else 0
get_winner(st) ==
    IF HasFour(st.board, -1) THEN -1
    ELSE IF HasFour(st.board, 1) THEN 1
    ELSE 0

\* is_final(): somebody won or the board is full
is_final(st) == get_winner(st) # 0 \/ get_free_cols(st) = <<>>

(***************************************************************************)
(* Helpers on sequences and numbers.                                       *)
(***************************************************************************)
Range(s) == {s[i] : i \in 1 .. Len(s)}

Abs(x) == IF x < 0 THEN 0 - x ELSE x

RECURSIVE SqrtSearch(_, _, _)
SqrtSearch(x, lo, hi) ==
    IF lo >= hi THEN lo
    ELSE LET mid == (lo + hi + 1) \div 2
         IN  IF mid * mid <= x THEN SqrtSearch(x, mid, hi)
                               ELSE SqrtSearch(x, lo, mid - 1)

\* math.sqrt on integers: the floor of the square root
ISqrt(x) == SqrtSearch(x, 0, 46340)

\* math.log(n) in millionths, n = 1 .. 320
LnTable == <<0, 693147, 1098612, 1386294, 1609438, 1791759, 1945910, 2079442, 2197225, 2302585,
             2397895, 2484907, 2564949, 2639057, 2708050, 2772589, 2833213, 2890372, 2944439, 2995732,
             3044522, 3091042, 3135494, 3178054, 3218876, 3258097, 3295837, 3332205, 3367296, 3401197,
             3433987, 3465736, 3496508, 3526361, 3555348, 3583519, 3610918, 3637586, 3663562, 3688879,
             3713572, 3737670, 3761200, 3784190, 3806662, 3828641, 3850148, 3871201, 3891820, 3912023,
             3931826, 3951244, 3970292, 3988984, 4007333, 4025352, 4043051, 4060443, 4077537, 4094345,
             4110874, 4127134, 4143135, 4158883, 4174387, 4189655, 4204693, 4219508, 4234107, 4248495,
             4262680, 4276666, 4290459, 4304065, 4317488, 4330733, 4343805, 4356709, 4369448, 4382027,
             4394449, 4406719, 4418841, 4430817, 4442651, 4454347, 4465908, 4477337, 4488636, 4499810,
             4510860, 4521789, 4532599, 4543295, 4553877, 4564348, 4574711, 4584967, 4595120, 4605170,
             4615121, 4624973, 4634729, 4644391, 4653960, 4663439, 4672829, 4682131, 4691348, 4700480,
             4709530, 4718499, 4727388, 4736198, 4744932, 4753590, 4762174, 4770685, 4779123, 4787492,
             4795791, 4804021, 4812184, 4820282, 4828314, 4836282, 4844187, 4852030, 4859812, 4867534,
             4875197, 4882802, 4890349, 4897840, 4905275, 4912655, 4919981, 4927254, 4934474, 4941642,
             4948760, 4955827, 4962845, 4969813, 4976734, 4983607, 4990433, 4997212, 5003946, 5010635,
             5017280, 5023881, 5030438, 5036953, 5043425, 5049856, 5056246, 5062595, 5068904, 5075174,
             5081404, 5087596, 5093750, 5099866, 5105945, 5111988, 5117994, 5123964, 5129899, 5135798,
             5141664, 5147494, 5153292, 5159055, 5164786, 5170484, 5176150, 5181784, 5187386, 5192957,
             5198497, 5204007, 5209486, 5214936, 5220356, 5225747, 5231109, 5236442, 5241747, 5247024,
             5252273, 5257495, 5262690, 5267858, 5273000, 5278115, 5283204, 5288267, 5293305, 5298317,
             5303305, 5308268, 5313206, 5318120, 5323010, 5327876, 5332719, 5337538, 5342334, 5347108,
             5351858, 5356586, 5361292, 5365976, 5370638, 5375278, 5379897, 5384495, 5389072, 5393628,
             5398163, 5402677, 5407172, 5411646, 5416100, 5420535, 5424950, 5429346, 5433722, 5438079,
             5442418, 5446737, 5451038, 5455321, 5459586, 5463832, 5468060, 5472271, 5476464, 5480639,
             5484797, 5488938, 5493061, 5497168, 5501258, 5505332, 5509388, 5513429, 5517453, 5521461,
             5525453, 5529429, 5533389, 5537334, 5541264, 5545177, 5549076, 5552960, 5556828, 5560682,
             5564520, 5568345, 5572154, 5575949, 5579730, 5583496, 5587249, 5590987, 5594711, 5598422,
             5602119, 5605802, 5609472, 5613128, 5616771, 5620401, 5624018, 5627621, 5631212, 5634790,
             5638355, 5641907, 5645447, 5648974, 5652489, 5655992, 5659482, 5662960, 5666427, 5669881,
             5673323, 5676754, 5680173, 5683580, 5686975, 5690359, 5693732, 5697093, 5700444, 5703782,
             5707110, 5710427, 5713733, 5717028, 5720312, 5723585, 5726848, 5730100, 5733341, 5736572,
             5739793, 5743003, 5746203, 5749393, 5752573, 5755742, 5758902, 5762051, 5765191, 5768321>>

\* results of best_child besides a child's index
None == 0
Raised == -1

(***************************************************************************)
(* class MCTS: one node of the search tree.  Nodes live in the sequence    *)
(* tree; parent and children are indexes into it.  children is the dict    *)
(* of the code in insertion order, each child carrying its own action.     *)
(* rollout_depth, heuristics_enabled, qtable and peso_q are handed down    *)
(* unchanged from the root to every child, so they are read from cfg.      *)
(***************************************************************************)
\* mutant: a node counts its own creation as a visit
MCTS_counted_at_creation(state, parent, action) ==
    [state             |-> state,
     parent            |-> parent,
     action            |-> action,
     children          |-> <<>>,
     visits            |-> 1,
     wins2             |-> 0,
     available_actions |-> get_free_cols(state)]

\* MCTS.__init__
MCTS(state, parent, action) ==
    [state             |-> state,
     parent            |-> parent,
     action            |-> action,
     children          |-> <<>>,
     visits            |-> 0,
     wins2             |-> 0,
     available_actions |-> get_free_cols(state)]

is_fully_expanded(n) == Len(n.children) = Len(n.available_actions)

is_terminal(n) == is_final(n.state)

\* the actions that are keys of n.children, in insertion order
ChildActions(t, n) == [i \in 1 .. Len(n.children) |-> t[n.children[i]].action]

\* codificar_estado_accion: "{jugador}:{cells, comma-joined}|{accion}"
RECURSIVE JoinCells(_, _)
JoinCells(b, k) ==
    LET cell == ToString(b[k \div COLS][k % COLS])
    IN  IF k = ROWS * COLS - 1 THEN cell
        ELSE cell \o "," \o JoinCells(b, k + 1)

\* mutant: the key leaves out the player to move
codificar_estado_accion_without_player(tablero, player, accion) ==
    JoinCells(tablero, 0) \o "|" \o ToString(accion)

codificar_estado_accion(tablero, player, accion) ==
    ToString(player) \o ":" \o JoinCells(tablero, 0) \o "|" \o ToString(accion)

\* train.py, codificar_estado: "{jugador}:{cells, comma-joined}"
codificar_estado(tablero, player) ==
    ToString(player) \o ":" \o JoinCells(tablero, 0)

\* mutant: the trainer's key puts the action first, "{accion}|{estado}"
crear_clave_estado_accion_action_first(tablero, player, accion) ==
    ToString(accion) \o "|" \o codificar_estado(tablero, player)

\* train.py, crear_clave_estado_accion: "{estado}|{accion}"
crear_clave_estado_accion(tablero, player, accion) ==
    codificar_estado(tablero, player) \o "|" \o ToString(accion)

\* qtable.get(clave, 0.0), in thousandths; a table is a set of <<key, value>>
QGet(qtable, clave) ==
    IF \E e \in qtable : e[1] = clave
    THEN (CHOOSE e \in qtable : e[1] = clave)[2]
    ELSE 0

\* mutant: the lookup is qtable[clave], which on a defaultdict inserts the key
qtable_get_subscript(qtable, clave) ==
    [value  |-> QGet(qtable, clave),
     qtable |-> IF \E e \in qtable : e[1] = clave THEN qtable ELSE qtable \cup {<<clave, 0>>}]

\* qtable.get(clave, 0.0) with its effect: the value, and the table after the call
qtable_get(qtable, clave) ==
    [value  |-> QGet(qtable, clave),
     qtable |-> qtable]

\* win_rate + exploration_weight * sqrt(log(parent_visits) / child_visits), millionths
UCB1(parent_visits, wins2, visits, exploration_weight) ==
    LET win_rate == (wins2 * 500000) \div visits
        exploration_term == ISqrt((LnTable[parent_visits] * 100) \div visits)
    IN  win_rate + (exploration_weight * exploration_term) \div 10

\* mutant: the table weight scales the win rate only, not the exploration bonus
ScoreOf_weight_on_win_rate(v, c, n, ch, exploration_weight) ==
    LET win_rate == (ch.wins2 * 500000) \div ch.visits
        ucb == UCB1(n.visits, ch.wins2, ch.visits, exploration_weight)
    IN  IF v = "C"
        THEN LET q_val == IF Cardinality(c.qtable) > 0 /\ ch.action # -1
                          THEN (QGet(c.qtable,
                                     codificar_estado_accion(n.state.board, n.state.player,
                                                             ch.action)) + 1000) * 500
                          ELSE 0
             IN  (100 - c.peso_q) * win_rate + 100 * (ucb - win_rate) + c.peso_q * q_val
        ELSE 100 * ucb

\* the score best_child / mejor_hijo of policy v with configuration c gives child
\* ch of parent n, in 1e-8
ScoreOf(v, c, n, ch, exploration_weight) ==
    LET ucb == UCB1(n.visits, ch.wins2, ch.visits, exploration_weight)
    IN  IF v = "C"
        THEN LET q_val == IF Cardinality(c.qtable) > 0 /\ ch.action # -1
                          THEN (QGet(c.qtable,
                                     codificar_estado_accion(n.state.board, n.state.player,
                                                             ch.action)) + 1000) * 500
                          ELSE 0
             IN  (100 - c.peso_q) * ucb + c.peso_q * q_val
        ELSE 100 * ucb

\* the score in the policy instance at hand
Score(t, n, ch, exploration_weight) == ScoreOf(variant, cfg, n, ch, exploration_weight)

\* best_score = -999999, in units of 1.0
BestScoreInit == -999999

\* the loop of best_child / mejor_hijo of policy v from child number i on; best is
\* None or the best child so far, best_score its score (meaningless while best is
\* None)
RECURSIVE BestChildOf(_, _, _, _, _, _, _, _)
BestChildOf(v, c, t, n, exploration_weight, i, best, best_score) ==
    IF i > Len(n.children) THEN best
    ELSE LET ch == t[n.children[i]]
         IN  IF ch.visits = 0 THEN n.children[i]
             ELSE IF n.visits = 0 THEN Raised     \* math.log(0): ValueError
             ELSE LET score == ScoreOf(v, c, n, ch, exploration_weight)
                      better == IF best = None
                                THEN score \div 100000000 >= BestScoreInit
                                ELSE score > best_score
                  IN  IF better
                      THEN BestChildOf(v, c, t, n, exploration_weight, i + 1,
                                       n.children[i], score)
                      ELSE BestChildOf(v, c, t, n, exploration_weight, i + 1,
                                       best, best_score)

\* the table after the lookups of that loop from child number i on
RECURSIVE TableAfterBestChild(_, _, _, _, _)
TableAfterBestChild(v, t, n, i, qtable) ==
    IF i > Len(n.children) THEN qtable
    ELSE LET ch == t[n.children[i]]
         IN  IF ch.visits = 0 \/ n.visits = 0 THEN qtable
             ELSE IF v = "C" /\ Cardinality(qtable) > 0 /\ ch.action # -1
             THEN TableAfterBestChild(v, t, n, i + 1,
                      qtable_get(qtable,
                                 codificar_estado_accion(n.state.board, n.state.player,
                                                         ch.action)).qtable)
             ELSE TableAfterBestChild(v, t, n, i + 1, qtable)

\* the loop in the policy instance at hand
BestChildFrom(t, n, exploration_weight, i, best, best_score) ==
    BestChildOf(variant, cfg, t, n, exploration_weight, i, best, best_score)

\* mutant: unvisited children are skipped (continue) while any child has visits
best_child_skips_unvisited(t, k, exploration_weight) ==
    LET visited == SelectSeq(t[k].children, LAMBDA c : t[c].visits > 0)
    IN  IF Len(visited) = 0 THEN BestChildFrom(t, t[k], exploration_weight, 1, None, 0)
        ELSE BestChildFrom(t, [t[k] EXCEPT !.children = visited], exploration_weight,
                           1, None, 0)

\* best_child(exploration_weight) of node number k: a child's index, None or Raised
best_child(t, k, exploration_weight) ==
    BestChildFrom(t, t[k], exploration_weight, 1, None, 0)

\* expand(): the tree with the first untried action's child added to node k, and
\* that child's index; None and the tree as it was when there is none
untried_actions(t, n) ==
    SelectSeq(n.available_actions, LAMBDA a : a \notin Range(ChildActions(t, n)))

\* mutant: the last untried action is expanded, not the first
expand_last_untried(t, k) ==
    LET untried == untried_actions(t, t[k])
    IN  IF Len(untried) = 0 THEN [tree |-> t, child |-> None]
        ELSE LET action == untried[Len(untried)]
                 child_node == MCTS(transition(t[k].state, action), k, action)
                 at == Len(t) + 1
             IN  [tree  |-> [Append(t, child_node) EXCEPT ![k].children = Append(@, at)],
                  child |-> at]

expand(t, k) ==
    LET untried == untried_actions(t, t[k])
    IN  IF Len(untried) = 0 THEN [tree |-> t, child |-> None]
        ELSE LET action == untried[1]
                 child_node == MCTS(transition(t[k].state, action), k, action)
                 at == Len(t) + 1
             IN  [tree  |-> [Append(t, child_node) EXCEPT ![k].children = Append(@, at)],
                  child |-> at]

(***************************************************************************)
(* Rollouts.                                                               *)
(***************************************************************************)
center_col == 3

\* the first element of seq that satisfies Test, or -1
FirstWhere(seq, Test(_)) ==
    LET hits == SelectSeq(seq, Test)
    IN  IF Len(hits) = 0 THEN -1 ELSE hits[1]

\* col wins at once for the player to move in st
WinsNow(st, col) == get_winner(transition(st, col)) = st.player

\* col would win at once for the other player, were it that player's turn
OpponentWinsNow(st, col) ==
    LET opponent == 0 - st.player
    IN  get_winner(transition(ConnectState(st.board, opponent), col)) = opponent

\* mutant: the last of the columns at minimum distance, not the first
ClosestToCenter_last_minimum(available_actions) ==
    LET nearest == SelectSeq(available_actions,
                             LAMBDA x : \A y \in Range(available_actions) :
                                            Abs(x - 3) <= Abs(y - 3))
    IN  nearest[Len(nearest)]

\* min(available_actions, key=lambda x: abs(x - center_col)): the first minimum
ClosestToCenter(available_actions) ==
    FirstWhere(available_actions,
               LAMBDA x : \A y \in Range(available_actions) :
                              Abs(x - center_col) <= Abs(y - center_col))

_select_heuristic_action(st, available_actions) ==
    LET win   == FirstWhere(available_actions, LAMBDA a : WinsNow(st, a))
        block == FirstWhere(available_actions, LAMBDA a : OpponentWinsNow(st, a))
    IN  IF win # -1 THEN win
        ELSE IF block # -1 THEN block
        ELSE IF center_col \in Range(available_actions) THEN center_col
        ELSE ClosestToCenter(available_actions)

\* mutant: the fast selector takes an immediately winning column first
_select_fast_action_checks_win(st, available_actions) ==
    LET winning == SelectSeq(available_actions,
                             LAMBDA a : get_winner(transition(st, a)) = st.player)
        central_actions == SelectSeq(available_actions, LAMBDA col : 2 <= col /\ col <= 4)
    IN  IF Len(winning) > 0 THEN winning[1]
        ELSE IF 3 \in Range(available_actions) THEN 3
        ELSE IF Len(central_actions) > 0 THEN central_actions[1]
        ELSE available_actions[1]

_select_fast_action(st, available_actions) ==
    LET central_actions == SelectSeq(available_actions, LAMBDA col : 2 <= col /\ col <= 4)
    IN  IF center_col \in Range(available_actions) THEN center_col
        ELSE IF Len(central_actions) > 0 THEN central_actions[1]
        ELSE available_actions[1]

\* mutant: a rollout without a winner is scored as a loss
Reward2_no_winner_is_loss(st, my_player) ==
    LET winner == get_winner(st)
    IN  IF winner = my_player THEN 2 ELSE 0

\* the reward of a rollout that stopped in state st, doubled
Reward2(st, my_player) ==
    LET winner == get_winner(st)
    IN  IF winner = my_player THEN 2
        ELSE IF winner = 0 THEN 1
        ELSE 0

\* the state in which the rollout loop of _simulate stops, from st after moves moves
RECURSIVE RolloutEnd(_, _, _, _)
RolloutEnd(st, moves, max_moves, heuristics_enabled) ==
    IF moves >= max_moves \/ is_final(st) \/ Len(get_free_cols(st)) = 0 THEN st
    ELSE LET available == get_free_cols(st)
             action == IF heuristics_enabled
                       THEN _select_heuristic_action(st, available)
                       ELSE _select_fast_action(st, available)
         IN  IF is_applicable(st, action)
             THEN RolloutEnd(transition(st, action), moves + 1, max_moves, heuristics_enabled)
             ELSE st   \* except ValueError: break

\* _simulate(my_player) of groups A and C, doubled
_simulate(n, my_player) ==
    Reward2(RolloutEnd(n.state, 0, cfg.rollout_depth, cfg.heuristics_enabled), my_player)

\* max_moves of the random rollout of group B
RandomMaxMoves == 42

\* the states in which a rollout with np.random.choice(available) can stop
RECURSIVE RandomRolloutEnds(_, _)
RandomRolloutEnds(st, moves) ==
    IF moves >= RandomMaxMoves \/ is_final(st) \/ Len(get_free_cols(st)) = 0 THEN {st}
    ELSE UNION {RandomRolloutEnds(transition(st, a), moves + 1) : a \in Range(get_free_cols(st))}

\* the rewards _simulate(my_player) of group B can return, doubled
RandomSimulate(n, my_player) ==
    {Reward2(e, my_player) : e \in RandomRolloutEnds(n.state, 0)}

(***************************************************************************)
(* The boards act() is called on: positions of real games, each given by   *)
(* the columns played from the empty board, player -1 moving first.        *)
(***************************************************************************)
Games ==
    << <<1, 6, 6, 0, 1, 1, 6, 4, 5, 5, 0, 5, 5, 4, 6, 5, 5, 6, 6, 0, 1, 2, 4, 0, 2, 2, 1, 4,
         3, 2, 1, 2, 0, 4, 2, 3, 3, 0>>,
       <<2, 5, 3, 4, 4, 1, 1, 2, 6, 0, 3, 0, 1, 4, 3, 3, 0, 6, 0, 4, 4, 5, 6, 3, 0, 0, 4, 2,
         1, 6, 6, 3, 5, 2, 5, 1, 1, 5, 2>>,
       <<2, 5, 4, 5, 3, 5, 6>>,
       <<0, 5, 6, 6, 4, 2, 1, 4, 1, 6, 5, 1, 4, 2, 1, 0, 1, 2, 2, 3, 0, 1, 6, 3, 2, 2, 5, 5,
         3, 3, 0, 6, 5, 3, 4>>,
       <<6, 3, 3, 3, 3, 2, 0, 1>>,
       <<0, 1, 4, 1, 0, 6, 5, 3, 1, 6, 2, 4, 3, 4, 4, 2, 5, 0, 0, 1, 5, 0, 1, 4, 2, 1, 6, 6,
         6, 4, 6, 2, 2, 2>>,
       <<5, 0, 1, 3, 0, 0, 3, 2, 0, 2, 5, 0, 2, 1, 5, 3, 6, 5, 5, 5, 2, 1, 3, 2, 4, 1, 4, 3,
         0, 4, 3, 6, 1, 2, 4, 1, 6>>,
       <<>>,
       <<3, 1, 5, 6>>,
       <<0, 1, 0, 5, 4, 6, 4, 4, 6, 2, 5, 1, 2, 0, 2, 4, 0, 3, 0, 0, 1, 4, 1, 3, 4, 1, 3, 3,
         6, 5, 1, 2, 3, 3, 5, 5, 2, 6>> >>

\* the state a game's moves lead to
RECURSIVE Replay(_, _, _)
Replay(moves, k, st) ==
    IF k > Len(moves) THEN st ELSE Replay(moves, k + 1, transition(st, moves[k]))

BoardOfGame(g) == Replay(Games[g], 1, ConnectState(EmptyBoard, -1)).board

\* np.sum(s == v)
CountPieces(s, v) == Cardinality({<<r, c>> \in RowIdx \X ColIdx : s[r][c] = v})

(***************************************************************************)
(* Bounds of the model.                                                    *)
(***************************************************************************)
NumBoards == 8       \* the first NumBoards games are used
MaxSims == 4         \* simulation budgets 0 .. MaxSims
MaxDepth == 2        \* rollout depths 1 .. MaxDepth
MaxRandomEmpty == 8  \* random rollouts: boards with at most this many empty cells
MaxCalls == 2        \* act() calls on one policy instance
MaxChildren == 3     \* best_child on its own: parents with 1 .. MaxChildren children
MaxKeyCells == 2     \* table keys: boards that differ in up to MaxKeyCells cells
MaxEpisodes == 2     \* training: the number of episodes (episodios)

DefaultExploration == 1414

ExplorationWeights == {1000, DefaultExploration}

DefaultPesoQ == 30

PesosQ == {0, DefaultPesoQ, 99}

\* a value table as the trainer leaves it: entries for positions with the learner
\* (player -1) to move, here the position s itself when player -1 is to move in it,
\* the empty board otherwise
TrainedValue(col) == IF col % 3 = 0 THEN -400 ELSE 600

TrainedTable(s) ==
    LET b == IF CountPieces(s, -1) = CountPieces(s, 1) THEN s ELSE EmptyBoard
    IN  {<<codificar_estado_accion(b, -1, col), TrainedValue(col)>> :
            col \in Range(get_free_cols(ConnectState(b, -1)))}

\* a table that lacks the entries of columns 2 and 4 of the position s
PartialTable(s) ==
    LET st == ConnectState(s, IF CountPieces(s, -1) = CountPieces(s, 1) THEN -1 ELSE 1)
    IN  {<<codificar_estado_accion(s, st.player, col), TrainedValue(col)>> :
            col \in {c \in Range(get_free_cols(st)) : c % 2 = 1 \/ c % 3 = 0}}

Budgets == 0 .. MaxSims

Depths == 1 .. MaxDepth

Configs(v, s) ==
    IF v = "A" THEN
        [num_simulations : Budgets, exploration_weight : ExplorationWeights,
         rollout_depth : Depths, heuristics_enabled : BOOLEAN,
         usar_qtable : {FALSE}, peso_q : {0}, qtable : {{}}]
    ELSE IF v = "B" THEN
        [num_simulations : Budgets, exploration_weight : {DefaultExploration},
         rollout_depth : {RandomMaxMoves}, heuristics_enabled : {FALSE},
         usar_qtable : {FALSE}, peso_q : {0}, qtable : {{}}]
    ELSE
        [num_simulations : Budgets, exploration_weight : ExplorationWeights,
         rollout_depth : Depths, heuristics_enabled : BOOLEAN,
         usar_qtable : {FALSE}, peso_q : {DefaultPesoQ}, qtable : {{}}]
        \cup
        [num_simulations : Budgets, exploration_weight : ExplorationWeights,
         rollout_depth : Depths, heuristics_enabled : BOOLEAN,
         usar_qtable : {TRUE}, peso_q : PesosQ, qtable : {{}, TrainedTable(s)}]
        \cup
        [num_simulations : {0}, exploration_weight : {1000},
         rollout_depth : {1}, heuristics_enabled : {TRUE},
         usar_qtable : {TRUE}, peso_q : {99, 100}, qtable : {PartialTable(s)}]

Boards == {BoardOfGame(g) : g \in {h \in 1 .. NumBoards : h <= Len(Games)}}

\* no trainer exists, no file is read and no key is encoded while a policy acts
NotTraining == agente = <<>> /\ partida = <<>> /\ entrenador = <<>>

NoGui == gui = <<>>

NoHost == ruta = <<>> /\ claves = <<>> /\ NoGui

\* no rollout is running: _simulate's locals exist only during its call
NoRollout == rollout = <<>>

Init ==
    /\ variant \in {"A", "B", "C"}
    /\ board \in {s \in Boards :
                     variant = "B" => CountPieces(s, 0) <= MaxRandomEmpty}
    /\ cfg \in Configs(variant, board)
    /\ tree = <<>>
    /\ node = None
    /\ jugador = 0
    /\ sim = 0
    /\ reward2 = 0
    /\ pc = "idle"
    /\ result = -1
    /\ call = 0
    /\ prev = -1
    /\ NotTraining
    /\ NoHost
    /\ NoRollout

(***************************************************************************)
(* act(s)                                                                  *)
(***************************************************************************)
\* current_player: -1 when both colours have as many pieces, else 1
current_player(s) == IF CountPieces(s, -1) = CountPieces(s, 1) THEN -1 ELSE 1

\* mutant: the block is looked for before the win
_check_immediate_moves_block_first(st) ==
    LET available == get_free_cols(st)
        win   == FirstWhere(available, LAMBDA a : WinsNow(st, a))
        block == FirstWhere(available, LAMBDA a : OpponentWinsNow(st, a))
    IN  IF block # -1 THEN block ELSE win

\* mutant: the block loop tests the acting player's pieces, not the opponent's
_check_immediate_moves_own_pieces(st) ==
    LET available == get_free_cols(st)
        win   == FirstWhere(available, LAMBDA a : WinsNow(st, a))
        block == FirstWhere(available, LAMBDA a : WinsNow(st, a))
    IN  IF win # -1 THEN win ELSE block

\* _check_immediate_moves / verificar_inmediato: a column, or -1 for None
_check_immediate_moves(st) ==
    LET available == get_free_cols(st)
        win   == FirstWhere(available, LAMBDA a : WinsNow(st, a))
        block == FirstWhere(available, LAMBDA a : OpponentWinsNow(st, a))
    IN  IF win # -1 THEN win ELSE block

\* mutant: >= in place of >, which keeps the last of the best columns
elegir_con_qtable_last_tied(st) ==
    LET columnas == get_free_cols(st)
        Q(col) == QGet(cfg.qtable, codificar_estado_accion(st.board, st.player, col))
        best == SelectSeq(columnas, LAMBDA col : \A other \in Range(columnas) : Q(col) >= Q(other))
    IN  best[Len(best)]

\* elegir_con_qtable: the first column with the highest table value
elegir_con_qtable(st) ==
    LET columnas == get_free_cols(st)
        Q(col) == QGet(cfg.qtable, codificar_estado_accion(st.board, st.player, col))
    IN  FirstWhere(columnas, LAMBDA col : \A other \in Range(columnas) : Q(col) >= Q(other))

\* the table after the lookups of elegir_con_qtable from column number i on
RECURSIVE TableAfterElegir(_, _, _)
TableAfterElegir(st, i, qtable) ==
    LET columnas == get_free_cols(st)
    IN  IF i > Len(columnas) THEN qtable
        ELSE TableAfterElegir(st, i + 1,
                 qtable_get(qtable,
                            codificar_estado_accion(st.board, st.player, columnas[i])).qtable)

\* the table-only bypass of group C applies
UsesTableOnly ==
    variant = "C" /\ cfg.usar_qtable /\ cfg.peso_q >= 99 /\ Cardinality(cfg.qtable) > 0

\* where the simulation loop goes after done iterations
LoopOrChoose(done) == IF done < cfg.num_simulations THEN "select" ELSE "choose"

\* node = root at the head of an iteration; node is unbound (None) past the loop
LoopNode(done) == IF done < cfg.num_simulations THEN 1 ELSE None

\* mutant: the policy keeps the tree of its previous call and searches on in it
RootTree_reused(initial_state) ==
    IF tree = <<>> THEN <<MCTS(initial_state, None, -1)>> ELSE tree

\* root = MCTS(initial_state): the tree of a call, freshly built
RootTree(initial_state) == <<MCTS(initial_state, None, -1)>>

\* act() up to the first iteration of the simulation loop
ActBegin ==
    /\ pc = "idle"
    /\ call < MaxCalls
    /\ LET player == current_player(board)
           initial_state == ConnectState(board, player)
           quick_move == IF variant = "B" THEN -1 ELSE _check_immediate_moves(initial_state)
       IN  /\ jugador' = player
           /\ call' = call + 1
           /\ sim' = 0
           /\ reward2' = 0
           /\ IF quick_move # -1
              THEN /\ result' = quick_move
                   /\ pc' = "done"
                   /\ tree' = <<>>
                   /\ node' = None
              ELSE IF UsesTableOnly
              THEN /\ result' = elegir_con_qtable(initial_state)
                   /\ pc' = "done"
                   /\ tree' = <<>>
                   /\ node' = None
              ELSE /\ result' = -1
                   /\ tree' = RootTree(initial_state)
                   /\ node' = LoopNode(0)
                   /\ pc' = LoopOrChoose(0)
           /\ cfg' = IF quick_move = -1 /\ UsesTableOnly
                     THEN [cfg EXCEPT !.qtable = TableAfterElegir(initial_state, 1, @)]
                     ELSE cfg
    /\ UNCHANGED <<variant, board, prev>>
    /\ UNCHANGED <<trainVars, hostVars, rollout>>
\* one turn of the selection loop: node = node.best_child(exploration_weight)
SelectStep ==
    /\ pc = "select"
    /\ ~is_terminal(tree[node])
    /\ is_fully_expanded(tree[node])
    /\ LET chosen == best_child(tree, node, cfg.exploration_weight)
       IN  IF chosen \in {None, Raised}
           THEN /\ node' = None          \* the call ends in an exception
                /\ pc' = "crashed"
           ELSE /\ node' = chosen
                /\ pc' = "select"
    /\ cfg' = [cfg EXCEPT !.qtable = TableAfterBestChild(variant, tree, tree[node], 1, @)]
    /\ UNCHANGED <<variant, board, tree, jugador, sim, reward2, result, call, prev>>
    /\ UNCHANGED <<trainVars, hostVars, rollout>>
\* the selection loop breaks; expansion
Expansion ==
    /\ pc = "select"
    /\ is_terminal(tree[node]) \/ ~is_fully_expanded(tree[node])
    /\ IF ~is_terminal(tree[node]) /\ ~is_fully_expanded(tree[node])
       THEN LET e == expand(tree, node)
            IN  /\ tree' = e.tree
                /\ node' = e.child
                /\ pc' = IF e.child = None THEN "crashed" ELSE "simulate"
       ELSE /\ pc' = "simulate"
            /\ UNCHANGED <<tree, node>>
    /\ UNCHANGED <<variant, cfg, board, jugador, sim, reward2, result, call, prev>>
    /\ UNCHANGED <<trainVars, hostVars, rollout>>
\* mutant: the rollout advances the node's own state (self.state = ...transition)
NodeAfterMove_rebinds_state(n, next_state) == [n EXCEPT !.state = next_state]

\* the node _simulate runs on, after the rollout has made a move to next_state:
\* the rollout rebinds its local current_state, built on a copy of the board,
\* and assigns nothing of the node
NodeAfterMove(n, next_state) == n

\* the tree after node k's _simulate, whose rollout stopped in state stop
TreeAfterSimulate(t, k, stop) ==
    IF stop = t[k].state THEN t ELSE [t EXCEPT ![k] = NodeAfterMove(@, stop)]

\* reward = node._simulate(current_player)
Simulation ==
    /\ pc = "simulate"
    /\ \E stop \in (IF variant = "B"
                     THEN RandomRolloutEnds(tree[node].state, 0)
                     ELSE {RolloutEnd(tree[node].state, 0, cfg.rollout_depth,
                                      cfg.heuristics_enabled)}) :
           /\ reward2' = Reward2(stop, jugador)
           /\ tree' = TreeAfterSimulate(tree, node, stop)
    /\ pc' = "backprop"
    /\ UNCHANGED <<variant, cfg, board, node, jugador, sim, result, call, prev>>
    /\ UNCHANGED <<trainVars, hostVars, rollout>>
\* the nodes from k up to the root
RECURSIVE PathToRoot(_, _)
PathToRoot(t, k) == IF k = None THEN {} ELSE {k} \cup PathToRoot(t, t[k].parent)

\* mutant: every node is credited with the raw reward
Credit2_no_inversion(t, k, player, r2) == r2

\* mutant: the inverse reward is -reward
Credit2_negated(t, k, player, r2) ==
    IF t[k].parent = None THEN r2
    ELSE IF t[t[k].parent].state.player = player THEN r2
    ELSE 0 - r2

\* mutant: the test is on the node's own state, not on its parent's
Credit2_by_own_player(t, k, player, r2) ==
    IF t[k].parent = None THEN r2
    ELSE IF t[k].state.player = player THEN r2
    ELSE 2 - r2

\* what the backpropagation loop adds to the wins of node k, doubled
Credit2(t, k, player, r2) ==
    IF t[k].parent = None THEN r2
    ELSE IF t[t[k].parent].state.player = player THEN r2
    ELSE 2 - r2

\* mutant: the loop steps to the parent before it updates, so the reached node
\* itself is left out
backpropagate_skip_leaf(t, k, player, r2) ==
    LET path == PathToRoot(t, k) \ {k}
    IN  [i \in 1 .. Len(t) |->
            IF i \in path
            THEN [t[i] EXCEPT !.visits = @ + 1, !.wins2 = @ + Credit2(t, i, player, r2)]
            ELSE t[i]]

\* mutant: the loop stops at the node below the root (while node.parent is not None)
backpropagate_stop_below_root(t, k, player, r2) ==
    LET path == {i \in PathToRoot(t, k) : t[i].parent # None}
    IN  [i \in 1 .. Len(t) |->
            IF i \in path
            THEN [t[i] EXCEPT !.visits = @ + 1, !.wins2 = @ + Credit2(t, i, player, r2)]
            ELSE t[i]]

\* mutant: visits is one counter shared by all nodes (a class attribute)
backpropagate_shared_counter(t, k, player, r2) ==
    LET path == PathToRoot(t, k)
    IN  [i \in 1 .. Len(t) |->
            IF i \in path
            THEN [t[i] EXCEPT !.visits = @ + 1, !.wins2 = @ + Credit2(t, i, player, r2)]
            ELSE [t[i] EXCEPT !.visits = @ + 1]]

\* the tree after the backpropagation loop started at node k
backpropagate(t, k, player, r2) ==
    LET path == PathToRoot(t, k)
    IN  [i \in 1 .. Len(t) |->
            IF i \in path
            THEN [t[i] EXCEPT !.visits = @ + 1, !.wins2 = @ + Credit2(t, i, player, r2)]
            ELSE t[i]]

Backpropagation ==
    /\ pc = "backprop"
    /\ tree' = backpropagate(tree, node, jugador, reward2)
    /\ node' = LoopNode(sim + 1)
    /\ sim' = sim + 1
    /\ pc' = LoopOrChoose(sim + 1)
    /\ UNCHANGED <<variant, cfg, board, jugador, reward2, result, call, prev>>
    /\ UNCHANGED <<trainVars, hostVars, rollout>>
\* mutant: >= in place of >, which keeps the last of the most visited children
RECURSIVE MostVisitedFrom_last_tied(_, _, _, _)
MostVisitedFrom_last_tied(t, i, best_action, max_visits) ==
    IF i > Len(t[1].children) THEN best_action
    ELSE LET child == t[t[1].children[i]]
         IN  IF child.visits >= max_visits
             THEN MostVisitedFrom_last_tied(t, i + 1, child.action, child.visits)
             ELSE MostVisitedFrom_last_tied(t, i + 1, best_action, max_visits)

\* the loop over root.children.items() that keeps the first child with most visits
RECURSIVE MostVisitedFrom(_, _, _, _)
MostVisitedFrom(t, i, best_action, max_visits) ==
    IF i > Len(t[1].children) THEN best_action
    ELSE LET child == t[t[1].children[i]]
         IN  IF child.visits > max_visits
             THEN MostVisitedFrom(t, i + 1, child.action, child.visits)
             ELSE MostVisitedFrom(t, i + 1, best_action, max_visits)

\* mutant: the fallback is column 0, legal or not
fallback_action_column_zero(initial_state) == 0

\* best_action = available[0] when the root has no child
fallback_action(initial_state) == get_free_cols(initial_state)[1]

\* the end of act(): the most visited root action, or the first legal column
Choose ==
    /\ pc = "choose"
    /\ LET best_action == MostVisitedFrom(tree, 1, -1, -1)
       IN  result' = IF best_action = -1
                     THEN fallback_action(tree[1].state)
                     ELSE best_action
    /\ pc' = "done"
    /\ UNCHANGED <<variant, cfg, board, tree, node, jugador, sim, reward2, call, prev>>
    /\ UNCHANGED <<trainVars, hostVars, rollout>>
(***************************************************************************)
(* Aha.act as a function of the configuration and the board: the search of *)
(* the pure-UCB1 policy run to its end, for comparison with other policies *)
(* on the same inputs.                                                     *)
(***************************************************************************)
\* the selection loop from node k: the node it stops at, None or Raised
RECURSIVE Aha_select(_, _, _)
Aha_select(c, t, k) ==
    IF is_terminal(t[k]) \/ ~is_fully_expanded(t[k]) THEN k
    ELSE LET chosen == BestChildOf("A", c, t, t[k], c.exploration_weight, 1, None, 0)
         IN  IF chosen \in {None, Raised} THEN Raised ELSE Aha_select(c, t, chosen)

\* the tree after the simulation loop, done iterations being completed; <<>> when
\* the call ends in an exception
RECURSIVE Aha_search(_, _, _, _)
Aha_search(c, t, player, done) ==
    IF done >= c.num_simulations THEN t
    ELSE LET k == Aha_select(c, t, 1)
         IN  IF k = Raised THEN <<>>
             ELSE LET e == IF ~is_terminal(t[k]) /\ ~is_fully_expanded(t[k])
                           THEN expand(t, k)
                           ELSE [tree |-> t, child |-> k]
                      r2 == Reward2(RolloutEnd(e.tree[e.child].state, 0, c.rollout_depth,
                                               c.heuristics_enabled), player)
                  IN  Aha_search(c, backpropagate(e.tree, e.child, player, r2), player,
                                 done + 1)

\* the tree Aha.act(s) ends with; <<>> when it returns from the short-circuit
Aha_tree(c, s) ==
    LET initial_state == ConnectState(s, current_player(s))
    IN  IF _check_immediate_moves(initial_state) # -1 THEN <<>>
        ELSE Aha_search(c, <<MCTS(initial_state, None, -1)>>, initial_state.player, 0)

\* the column Aha.act(s) returns; Raised when the call ends in an exception
Aha_act(c, s) ==
    LET initial_state == ConnectState(s, current_player(s))
        quick_move == _check_immediate_moves(initial_state)
        t == Aha_tree(c, s)
    IN  IF quick_move # -1 THEN quick_move
        ELSE IF t = <<>> THEN Raised
        ELSE LET best_action == MostVisitedFrom(t, 1, -1, -1)
             IN  IF best_action = -1 THEN fallback_action(initial_state) ELSE best_action

\* the host calls act() again on the same instance with the same board; the tree
\* of the finished call is garbage that no code reads, and is left as it is
ActAgain ==
    /\ pc = "done"
    /\ call < MaxCalls
    /\ prev' = result
    /\ result' = -1
    /\ pc' = "idle"
    /\ UNCHANGED <<variant, cfg, board, tree, node, jugador, sim, reward2, call>>
    /\ UNCHANGED <<trainVars, hostVars, rollout>>
\* one act() call on a fresh policy instance
Next ==
    \/ ActBegin
    \/ SelectStep
    \/ Expansion
    \/ Simulation
    \/ Backpropagation
    \/ Choose

Spec == Init /\ [][Next]_vars

\* several act() calls on one instance, the non-random policies only
InitRepeat == Init /\ variant # "B"

NextRepeat ==
    \/ ActBegin
    \/ SelectStep
    \/ Expansion
    \/ Simulation
    \/ Backpropagation
    \/ Choose
    \/ ActAgain

SpecRepeat == InitRepeat /\ [][NextRepeat]_vars

(***************************************************************************)
(* mount(): the table is loaded from the file train/q_table.pkl.  A file   *)
(* is modelled by whether it exists, whether open() succeeds on it, and    *)
(* what its bytes unpickle to:                                             *)
(*   "garbage"  not a pickle, pickle.load raises                           *)
(*   "list"     an object without a get method                             *)
(*   "dict"     a dict, with or without the key 'Q'; the value under 'Q'   *)
(*              is a mapping (mapping = TRUE) or a number                  *)
(***************************************************************************)
Unpickled(kind, has_Q, mapping, Q) == [kind |-> kind, has_Q |-> has_Q, mapping |-> mapping, Q |-> Q]

Files(s) ==
    {[exists |-> FALSE, readable |-> FALSE, data |-> Unpickled("garbage", FALSE, FALSE, {})],
     [exists |-> TRUE, readable |-> FALSE, data |-> Unpickled("dict", TRUE, TRUE, TrainedTable(s))],
     [exists |-> TRUE, readable |-> TRUE, data |-> Unpickled("garbage", FALSE, FALSE, {})],
     [exists |-> TRUE, readable |-> TRUE, data |-> Unpickled("list", FALSE, FALSE, {})],
     [exists |-> TRUE, readable |-> TRUE, data |-> Unpickled("dict", FALSE, FALSE, {})],
     [exists |-> TRUE, readable |-> TRUE, data |-> Unpickled("dict", TRUE, FALSE, {})],
     [exists |-> TRUE, readable |-> TRUE, data |-> Unpickled("dict", TRUE, TRUE, TrainedTable(s))]}

\* the body of the try statement: the table returned, or raised
LoadTable(file) ==
    IF ~file.readable THEN [raised |-> TRUE, table |-> {}]                \* open()
    ELSE IF file.data.kind = "garbage" THEN [raised |-> TRUE, table |-> {}]   \* pickle.load
    ELSE IF file.data.kind # "dict" THEN [raised |-> TRUE, table |-> {}]      \* data.get
    ELSE IF ~file.data.has_Q THEN [raised |-> FALSE, table |-> {}]        \* get('Q', {})
    ELSE IF ~file.data.mapping THEN [raised |-> TRUE, table |-> {}]       \* defaultdict(float, 5)
    ELSE [raised |-> FALSE, table |-> file.data.Q]

\* mutant: no try statement around the load
cargar_qtable_without_try(file) ==
    IF ~file.exists THEN [raised |-> FALSE, table |-> {}]
    ELSE LoadTable(file)

\* cargar_qtable(ruta)
cargar_qtable(file) ==
    IF ~file.exists THEN [raised |-> FALSE, table |-> {}]
    ELSE IF LoadTable(file).raised THEN [raised |-> FALSE, table |-> {}]   \* except:
    ELSE LoadTable(file)

ConfigsMount ==
    [num_simulations : {0, MaxSims}, exploration_weight : {1000},
     rollout_depth : {1}, heuristics_enabled : {TRUE},
     usar_qtable : BOOLEAN, peso_q : {DefaultPesoQ, 99}, qtable : {{}}]

\* a policy instance after __init__, before mount()
InitMount ==
    /\ variant = "C"
    /\ board \in Boards
    /\ cfg \in ConfigsMount
    /\ ruta \in Files(board)
    /\ tree = <<>>
    /\ node = None
    /\ jugador = 0
    /\ sim = 0
    /\ reward2 = 0
    /\ pc = "constructed"
    /\ result = -1
    /\ call = 0
    /\ prev = -1
    /\ NotTraining
    /\ claves = <<>>
    /\ NoGui
    /\ NoRollout

\* mount()
Mount ==
    /\ pc = "constructed"
    /\ IF cfg.usar_qtable
       THEN LET loaded == cargar_qtable(ruta)
            IN  IF loaded.raised
                THEN cfg' = cfg /\ pc' = "crashed"
                ELSE cfg' = [cfg EXCEPT !.qtable = loaded.table] /\ pc' = "idle"
       ELSE cfg' = cfg /\ pc' = "idle"
    /\ UNCHANGED <<variant, board, tree, node, jugador, sim, reward2, result, call, prev>>
    /\ UNCHANGED <<trainVars, hostVars, rollout>>

\* mount(), then one act() call
NextMount ==
    \/ Mount
    \/ ActBegin
    \/ SelectStep
    \/ Expansion
    \/ Simulation
    \/ Backpropagation
    \/ Choose

SpecMount == InitMount /\ [][NextMount]_vars

(***************************************************************************)
(* best_child on its own: a parent on the empty board with its first k     *)
(* children expanded, every child given a visit count and a win score, the *)
(* parent visited at least as often as its children together (each visit   *)
(* of a child is a backpropagation pass that went on through the parent).  *)
(***************************************************************************)
ChildVisitChoices == {0, 1, 2}

\* visits and doubled wins of one child: all losses, all draws or all wins
ChildStats == {[visits |-> v, wins2 |-> f * v] : v \in ChildVisitChoices, f \in {0, 1, 2}}

RECURSIVE ExpandTimes(_, _)
ExpandTimes(t, k) == IF k = 0 THEN t ELSE ExpandTimes(expand(t, 1).tree, k - 1)

RECURSIVE SumStats(_, _)
SumStats(stats, i) == IF i > Len(stats) THEN 0 ELSE stats[i].visits + SumStats(stats, i + 1)

\* the parent and its Len(stats) children, with the given statistics
Family(stats, extra) ==
    LET base == ExpandTimes(<<MCTS(ConnectState(EmptyBoard, -1), None, -1)>>, Len(stats))
    IN  [i \in 1 .. Len(base) |->
            IF i = 1
            THEN [base[1] EXCEPT !.visits = SumStats(stats, 1) + extra]
            ELSE [base[i] EXCEPT !.visits = stats[i - 1].visits,
                                 !.wins2 = stats[i - 1].wins2]]

ConfigsBestChild(v) ==
    IF v = "A" THEN
        [num_simulations : {0}, exploration_weight : ExplorationWeights,
         rollout_depth : {1}, heuristics_enabled : {TRUE},
         usar_qtable : {FALSE}, peso_q : {0}, qtable : {{}}]
    ELSE
        [num_simulations : {0}, exploration_weight : {1000},
         rollout_depth : {1}, heuristics_enabled : {TRUE},
         usar_qtable : {TRUE}, peso_q : {DefaultPesoQ}, qtable : {TrainedTable(EmptyBoard)}]

InitBestChild ==
    /\ variant \in {"A", "C"}
    /\ board = EmptyBoard
    /\ cfg \in ConfigsBestChild(variant)
    /\ \E k \in 1 .. MaxChildren : \E stats \in [1 .. k -> ChildStats] :
           \E extra \in {0, 1} : tree = Family(stats, extra)
    /\ node = 1
    /\ jugador = -1
    /\ sim = 0
    /\ reward2 = 0
    /\ pc = "best_child"
    /\ result = -1
    /\ call = 0
    /\ prev = -1
    /\ NotTraining
    /\ NoHost
    /\ NoRollout

\* node = node.best_child(exploration_weight)
BestChildCall ==
    /\ pc = "best_child"
    /\ node' = best_child(tree, node, cfg.exploration_weight)
    /\ pc' = "returned"
    /\ UNCHANGED <<variant, cfg, board, tree, jugador, sim, reward2, result, call, prev>>
    /\ UNCHANGED <<trainVars, hostVars, rollout>>
NextBestChild == BestChildCall

SpecBestChild == InitBestChild /\ [][NextBestChild]_vars

(***************************************************************************)
(* The key functions on their own: two (board, player, action) triples are *)
(* encoded by the policy's and by the trainer's key function.  The boards  *)
(* are a position with every combination of values in a few cells, the     *)
(* first and the last cell of the flattened board among them.              *)
(***************************************************************************)
KeyCells == << <<0, 0>>, <<5, 6>>, <<2, 3>>, <<5, 0>> >>

RECURSIVE SetCells(_, _, _)
SetCells(b, vals, i) ==
    IF i > Len(vals) THEN b
    ELSE SetCells([b EXCEPT ![KeyCells[i][1]][KeyCells[i][2]] = vals[i]], vals, i + 1)

KeyBoards == {SetCells(BoardOfGame(3), vals, 1) : vals \in [1 .. MaxKeyCells -> {-1, 0, 1}]}

Triples == [board : KeyBoards, player : {-1, 1}, action : ColIdx]

\* the triples with any board and player, and the same or the next action
Near(x) == [board : KeyBoards, player : {-1, 1}, action : {x.action, (x.action + 1) % COLS}]

\* a policy instance that is not inside act()
PolicyIdle ==
    /\ variant = "C"
    /\ board = EmptyBoard
    /\ cfg = [num_simulations |-> 0, exploration_weight |-> 1000, rollout_depth |-> 1,
              heuristics_enabled |-> TRUE, usar_qtable |-> TRUE, peso_q |-> DefaultPesoQ,
              qtable |-> {}]
    /\ tree = <<>>
    /\ node = None
    /\ jugador = 0
    /\ sim = 0
    /\ reward2 = 0
    /\ result = -1
    /\ call = 0
    /\ prev = -1
    /\ NoRollout

InitKeys ==
    /\ PolicyIdle
    /\ NotTraining
    /\ ruta = <<>>
    /\ NoGui
    /\ \E x \in Triples : \E y \in Near(x) :
           claves = [a |-> x, b |-> y, ka |-> "", kb |-> "", ta |-> "", tb |-> ""]
    /\ pc = "encode"

\* both triples through codificar_estado_accion and crear_clave_estado_accion
EncodeKeys ==
    /\ pc = "encode"
    /\ claves' = [claves EXCEPT
           !.ka = codificar_estado_accion(claves.a.board, claves.a.player, claves.a.action),
           !.kb = codificar_estado_accion(claves.b.board, claves.b.player, claves.b.action),
           !.ta = crear_clave_estado_accion(claves.a.board, claves.a.player, claves.a.action),
           !.tb = crear_clave_estado_accion(claves.b.board, claves.b.player, claves.b.action)]
    /\ pc' = "encoded"
    /\ UNCHANGED <<policyVars, trainVars, ruta, gui>>

NextKeys == EncodeKeys

SpecKeys == InitKeys /\ [][NextKeys]_vars

(***************************************************************************)
(* train.py: tabular Monte-Carlo training by self-play.                    *)
(*                                                                         *)
(* Numbers.  Q values, returns and rewards are integers in units of        *)
(* 1 / Unit; gamma, alpha and epsilon_decay are fractions num / den;       *)
(* epsilon is in millionths; ucb_c in thousandths.  Q, N and               *)
(* visitas_estado are defaultdicts, modelled like the policy's table as    *)
(* sets of <<key, value>> with at most one entry per key.                  *)
(*                                                                         *)
(* Randomness.  The draws of one episode come from a stream chosen when    *)
(* the episode starts: random.random() gives the stream's u (millionths),  *)
(* random.choice(columnas) gives the column the stream's game plays at     *)
(* that ply when it is among columnas, else another element of columnas.   *)
(***************************************************************************)
Unit == 16777216

Fraction(num, den) == [num |-> num, den |-> den]

\* x * f, for x an integer and f a fraction
Times(f, x) == (f.num * x) \div f.den

\* d[k] on a defaultdict: the value, and the dict with the key inserted if absent
Subscript(d, k) ==
    [value |-> QGet(d, k),
     dict  |-> IF \E e \in d : e[1] = k THEN d ELSE d \cup {<<k, 0>>}]

\* d[k] = v
DictSet(d, k, v) == {e \in d : e[1] # k} \cup {<<k, v>>}

\* the games whose moves the random streams follow: the learner wins at ply 7,
\* the opponent wins at ply 8, nobody wins in 42 plies
TrainScripts ==
    << <<3, 0, 3, 0, 3, 1, 3>>,
       <<0, 3, 0, 3, 1, 3, 6, 3>>,
       <<0, 1, 5, 5, 0, 2, 3, 2, 0, 3, 4, 5, 3, 6, 4, 3, 5, 6, 2, 2, 2, 2, 3, 0, 4, 1, 6, 1,
         0, 4, 5, 0, 1, 1, 1, 4, 4, 3, 5, 6, 6, 6>> >>

Streams == [game : 1 .. Len(TrainScripts), u : {0, 999999}]

\* the draws of ply m of an episode
Draw(azar, m) ==
    [u   |-> azar.u,
     col |-> TrainScripts[azar.game][((m - 1) % Len(TrainScripts[azar.game])) + 1]]

\* mutant: the column drawn, whether it is in the list or not
RandomChoice_any_column(columnas, draw) == draw.col

\* random.choice(columnas)
RandomChoice(columnas, draw) ==
    IF draw.col \in Range(columnas) THEN draw.col
    ELSE columnas[(draw.col % Len(columnas)) + 1]

\* the constructor arguments of Entrenador: the defaults for epsilon with gamma and
\* alpha 1/2, and a fast epsilon decay with gamma 1 and alpha 1/4
TrainConfigs ==
    {[episodios |-> MaxEpisodes, epsilon_inicio |-> 1000000, epsilon_fin |-> 100000,
      epsilon_decay |-> Fraction(995, 1000), gamma |-> Fraction(1, 2),
      alpha |-> Fraction(1, 2), ucb_c |-> 2000],
     [episodios |-> MaxEpisodes, epsilon_inicio |-> 1000000, epsilon_fin |-> 100000,
      epsilon_decay |-> Fraction(1, 4), gamma |-> Fraction(1, 1),
      alpha |-> Fraction(1, 4), ucb_c |-> 2000]}

\* AgenteQ.__init__
AgenteQ(c) ==
    [Q |-> {}, N |-> {}, visitas_estado |-> {},
     epsilon |-> c.epsilon_inicio, epsilon_fin |-> c.epsilon_fin,
     epsilon_decay |-> c.epsilon_decay, gamma |-> c.gamma, alpha |-> c.alpha,
     ucb_c |-> c.ucb_c]

\* "return mejor if mejor else random.choice(columnas)": None and column 0 are falsy
Truthy(mejor) == mejor # -1 /\ mejor # 0

\* the loop of elegir_con_epsilon from column number i on; mejor is -1 for None
RECURSIVE GreedyFrom(_, _, _, _, _, _)
GreedyFrom(Q, estado, columnas, i, mejor, mejor_q) ==
    IF i > Len(columnas) THEN [mejor |-> mejor, Q |-> Q]
    ELSE LET col == columnas[i]
             q == Subscript(Q, crear_clave_estado_accion(estado.board, estado.player, col))
         IN  IF mejor = -1 \/ q.value > mejor_q
             THEN GreedyFrom(q.dict, estado, columnas, i + 1, col, q.value)
             ELSE GreedyFrom(q.dict, estado, columnas, i + 1, mejor, mejor_q)

\* elegir_con_epsilon: the action, and the agent's tables after the call
elegir_con_epsilon(ag, estado, columnas, draw) ==
    IF draw.u < ag.epsilon
    THEN [accion |-> RandomChoice(columnas, draw),
          Q |-> ag.Q, N |-> ag.N, visitas_estado |-> ag.visitas_estado]
    ELSE LET g == GreedyFrom(ag.Q, estado, columnas, 1, -1, 0)
         IN  [accion |-> IF Truthy(g.mejor) THEN g.mejor ELSE RandomChoice(columnas, draw),
              Q |-> g.Q, N |-> ag.N, visitas_estado |-> ag.visitas_estado]

\* ucb_c * sqrt(log(visitas_totales) / visitas_accion), in units of 1 / Unit
Exploracion(ucb_c, visitas_totales, visitas_accion) ==
    (((Unit \div 10000) * ISqrt((LnTable[visitas_totales] * 100) \div visitas_accion))
        \div 1000) * ucb_c

\* the loop of elegir_con_ucb from column number i on; returned is the column of
\* the early return (-1: the loop ran to its end)
RECURSIVE UcbFrom(_, _, _, _, _, _, _, _, _)
UcbFrom(ucb_c, Q, N, estado, columnas, visitas_totales, i, mejor, mejor_ucb) ==
    IF i > Len(columnas) THEN [returned |-> -1, mejor |-> mejor, Q |-> Q, N |-> N]
    ELSE LET col == columnas[i]
             clave == crear_clave_estado_accion(estado.board, estado.player, col)
             visitas_accion == Subscript(N, clave)
         IN  IF visitas_accion.value = 0
             THEN [returned |-> col, mejor |-> mejor, Q |-> Q, N |-> visitas_accion.dict]
             ELSE LET q == Subscript(Q, clave)
                      ucb == q.value + Exploracion(ucb_c, visitas_totales, visitas_accion.value)
                  IN  IF mejor = -1 \/ ucb > mejor_ucb
                      THEN UcbFrom(ucb_c, q.dict, visitas_accion.dict, estado, columnas,
                                   visitas_totales, i + 1, col, ucb)
                      ELSE UcbFrom(ucb_c, q.dict, visitas_accion.dict, estado, columnas,
                                   visitas_totales, i + 1, mejor, mejor_ucb)

\* mutant: the selector counts the visit of the state itself
elegir_con_ucb_counts_visit(ag, estado, columnas, draw) ==
    LET visitas_totales == Subscript(ag.visitas_estado,
                                     codificar_estado(estado.board, estado.player))
    IN  IF visitas_totales.value = 0
        THEN [accion |-> RandomChoice(columnas, draw),
              Q |-> ag.Q, N |-> ag.N, visitas_estado |-> DictSet(visitas_totales.dict,
                                           codificar_estado(estado.board, estado.player),
                                           visitas_totales.value + 1)]
        ELSE LET l == UcbFrom(ag.ucb_c, ag.Q, ag.N, estado, columnas,
                              visitas_totales.value, 1, -1, 0)
             IN  [accion |-> IF l.returned # -1 THEN l.returned
                             ELSE IF Truthy(l.mejor) THEN l.mejor
                             ELSE RandomChoice(columnas, draw),
                  Q |-> l.Q, N |-> l.N, visitas_estado |-> DictSet(visitas_totales.dict,
                                           codificar_estado(estado.board, estado.player),
                                           visitas_totales.value + 1)]

\* elegir_con_ucb: the action, and the agent's tables after the call
elegir_con_ucb(ag, estado, columnas, draw) ==
    LET visitas_totales == Subscript(ag.visitas_estado,
                                     codificar_estado(estado.board, estado.player))
    IN  IF visitas_totales.value = 0
        THEN [accion |-> RandomChoice(columnas, draw),
              Q |-> ag.Q, N |-> ag.N, visitas_estado |-> visitas_totales.dict]
        ELSE LET l == UcbFrom(ag.ucb_c, ag.Q, ag.N, estado, columnas,
                              visitas_totales.value, 1, -1, 0)
             IN  [accion |-> IF l.returned # -1 THEN l.returned
                             ELSE IF Truthy(l.mejor) THEN l.mejor
                             ELSE RandomChoice(columnas, draw),
                  Q |-> l.Q, N |-> l.N, visitas_estado |-> visitas_totales.dict]

\* seleccionar_accion(estado, usar_ucb)
seleccionar_accion(ag, estado, usar_ucb, draw) ==
    LET columnas == get_free_cols(estado)
    IN  IF usar_ucb THEN elegir_con_ucb(ag, estado, columnas, draw)
        ELSE elegir_con_epsilon(ag, estado, columnas, draw)

\* Aleatorio.actuar(estado), which touches no table
actuar(ag, estado, draw) ==
    [accion |-> RandomChoice(get_free_cols(estado), draw),
     Q |-> ag.Q, N |-> ag.N, visitas_estado |-> ag.visitas_estado]

\* mutant: the loop stops above index 0, range(len(trayectoria) - 1, 0, -1)
RECURSIVE CreditFrom_skip_first(_, _, _, _, _, _)
CreditFrom_skip_first(ag, trayectoria, i, retorno, visitados, retornos) ==
    IF i <= 1 THEN [agente |-> ag, retornos |-> retornos]
    ELSE LET estado == trayectoria[i].estado
             accion == trayectoria[i].accion
             clave == crear_clave_estado_accion(estado.board, estado.player, accion)
             clave_estado == codificar_estado(estado.board, estado.player)
             q_viejo == Subscript(ag.Q, clave)
             q_nuevo == q_viejo.value + Times(ag.alpha, retorno - q_viejo.value)
             n == Subscript(ag.N, clave)
             v == Subscript(ag.visitas_estado, clave_estado)
             updated == [ag EXCEPT !.Q = DictSet(q_viejo.dict, clave, q_nuevo),
                                   !.N = DictSet(n.dict, clave, n.value + 1),
                                   !.visitas_estado = DictSet(v.dict, clave_estado, v.value + 1)]
         IN  CreditFrom_skip_first(IF clave \notin visitados THEN updated ELSE ag,
                                   trayectoria, i - 1, Times(ag.gamma, retorno),
                                   visitados \cup {clave}, [retornos EXCEPT ![i] = retorno])

\* mutant: the return is discounted before the entry is updated, not after
RECURSIVE CreditFrom_discount_first(_, _, _, _, _, _)
CreditFrom_discount_first(ag, trayectoria, i, retorno, visitados, retornos) ==
    IF i = 0 THEN [agente |-> ag, retornos |-> retornos]
    ELSE LET estado == trayectoria[i].estado
             accion == trayectoria[i].accion
             clave == crear_clave_estado_accion(estado.board, estado.player, accion)
             clave_estado == codificar_estado(estado.board, estado.player)
             discounted == Times(ag.gamma, retorno)
             q_viejo == Subscript(ag.Q, clave)
             q_nuevo == q_viejo.value + Times(ag.alpha, discounted - q_viejo.value)
             n == Subscript(ag.N, clave)
             v == Subscript(ag.visitas_estado, clave_estado)
             updated == [ag EXCEPT !.Q = DictSet(q_viejo.dict, clave, q_nuevo),
                                   !.N = DictSet(n.dict, clave, n.value + 1),
                                   !.visitas_estado = DictSet(v.dict, clave_estado, v.value + 1)]
         IN  CreditFrom_discount_first(IF clave \notin visitados THEN updated ELSE ag,
                                       trayectoria, i - 1, discounted,
                                       visitados \cup {clave},
                                       [retornos EXCEPT ![i] = discounted])

\* mutant: the state counter is set to 1, not incremented
RECURSIVE CreditFrom_state_counter_reset(_, _, _, _, _, _)
CreditFrom_state_counter_reset(ag, trayectoria, i, retorno, visitados, retornos) ==
    IF i = 0 THEN [agente |-> ag, retornos |-> retornos]
    ELSE LET estado == trayectoria[i].estado
             accion == trayectoria[i].accion
             clave == crear_clave_estado_accion(estado.board, estado.player, accion)
             clave_estado == codificar_estado(estado.board, estado.player)
             q_viejo == Subscript(ag.Q, clave)                       
             q_nuevo == q_viejo.value + Times(ag.alpha, retorno - q_viejo.value)
             n == Subscript(ag.N, clave)
             v == Subscript(ag.visitas_estado, clave_estado)
             updated == [ag EXCEPT !.Q = DictSet(q_viejo.dict, clave, q_nuevo),
                                   !.N = DictSet(n.dict, clave, n.value + 1),
                                   !.visitas_estado = DictSet(v.dict, clave_estado, 1)]
         IN  CreditFrom_state_counter_reset(IF clave \notin visitados THEN updated ELSE ag,
                        trayectoria, i - 1, Times(ag.gamma, retorno),
                        visitados \cup {clave}, [retornos EXCEPT ![i] = retorno])

\* the loop of actualizar_q_values at index i (1-based), going down: the agent
\* after the loop, and the value retorno had when each entry was reached
RECURSIVE CreditFrom(_, _, _, _, _, _)
CreditFrom(ag, trayectoria, i, retorno, visitados, retornos) ==
    IF i = 0 THEN [agente |-> ag, retornos |-> retornos]
    ELSE LET estado == trayectoria[i].estado
             accion == trayectoria[i].accion
             clave == crear_clave_estado_accion(estado.board, estado.player, accion)
             clave_estado == codificar_estado(estado.board, estado.player)
             q_viejo == Subscript(ag.Q, clave)                       \* obtener_q
             q_nuevo == q_viejo.value + Times(ag.alpha, retorno - q_viejo.value)
             n == Subscript(ag.N, clave)
             v == Subscript(ag.visitas_estado, clave_estado)
             updated == [ag EXCEPT !.Q = DictSet(q_viejo.dict, clave, q_nuevo),
                                   !.N = DictSet(n.dict, clave, n.value + 1),
                                   !.visitas_estado = DictSet(v.dict, clave_estado, v.value + 1)]
         IN  CreditFrom(IF clave \notin visitados THEN updated ELSE ag,
                        trayectoria, i - 1, Times(ag.gamma, retorno),
                        visitados \cup {clave}, [retornos EXCEPT ![i] = retorno])

\* actualizar_q_values(trayectoria, recompensa_final)
actualizar_q_values(ag, trayectoria, recompensa_final) ==
    CreditFrom(ag, trayectoria, Len(trayectoria), recompensa_final, {},
               [i \in 1 .. Len(trayectoria) |-> 0])

\* mutant: the floor is not applied
actualizar_epsilon_without_floor(ag) ==
    [ag EXCEPT !.epsilon = Times(ag.epsilon_decay, ag.epsilon)]

\* actualizar_epsilon()
actualizar_epsilon(ag) ==
    LET decayed == Times(ag.epsilon_decay, ag.epsilon)
    IN  [ag EXCEPT !.epsilon = IF ag.epsilon_fin >= decayed THEN ag.epsilon_fin ELSE decayed]

\* the plies after which the while loop of jugar_partida stops
MaxPlies == 42

\* "if ep % 100 == 0"
CheckpointInterval == 100

\* the locals of jugar_partida before the first episode
NoPartida ==
    [estado |-> ConnectState(EmptyBoard, -1), trayectoria |-> <<>>,
     contra_aleatorio |-> FALSE, usar_ucb |-> FALSE, movimientos |-> 0,
     accion |-> -1, azar |-> [game |-> 1, u |-> 0], retornos |-> <<>>]

\* Entrenador.__init__, and entrenar() at the head of its loop
InitTrain ==
    /\ PolicyIdle
    /\ NoHost
    /\ \E c \in TrainConfigs :
           /\ agente = AgenteQ(c)
           /\ entrenador = [episodios |-> c.episodios, ep |-> 1, victorias |-> 0,
                            derrotas |-> 0, empates |-> 0, recompensa |-> 0,
                            historial_q |-> 0, checkpoints |-> {}, guardado |-> 0]
    /\ partida = NoPartida
    /\ pc = "episode"

\* jugar_partida(ep) up to its while loop, the episode's draws coming from one of
\* streams and random.random() < prob_aleatorio being one of contras
PartidaWith(contras, streams) ==
    /\ pc = "episode"
    /\ \E contra \in contras, stream \in streams :
           partida' = [estado |-> ConnectState(EmptyBoard, -1), trayectoria |-> <<>>,
                       contra_aleatorio |-> contra,
                       usar_ucb |-> (entrenador.ep % 2 = 0),
                       movimientos |-> 0, accion |-> -1, azar |-> stream,
                       retornos |-> <<>>]
    /\ pc' = "ply"
    /\ UNCHANGED <<policyVars, hostVars, agente, entrenador>>

PartidaBegin == PartidaWith(BOOLEAN, Streams)

\* mutant: every ply is recorded, the opponent's too
Recorded_every_ply(trayectoria, jugador_actual, estado, accion) ==
    Append(trayectoria, [estado |-> estado, accion |-> accion])

\* "if jugador_actual == -1: trayectoria.append((estado, accion))"
Recorded(trayectoria, jugador_actual, estado, accion) ==
    IF jugador_actual = -1
    THEN Append(trayectoria, [estado |-> estado, accion |-> accion])
    ELSE trayectoria

\* one turn of the while loop of jugar_partida; transition raises ValueError on a
\* column that is not legal, which nothing catches
Ply ==
    /\ pc = "ply"
    /\ ~is_final(partida.estado) /\ partida.movimientos < MaxPlies
    /\ LET estado == partida.estado
           jugador_actual == estado.player
           draw == Draw(partida.azar, partida.movimientos + 1)
           chosen == IF jugador_actual = -1
                     THEN seleccionar_accion(agente, estado, partida.usar_ucb, draw)
                     ELSE IF partida.contra_aleatorio
                     THEN actuar(agente, estado, draw)
                     ELSE seleccionar_accion(agente, estado, ~partida.usar_ucb, draw)
       IN  /\ agente' = [agente EXCEPT !.Q = chosen.Q, !.N = chosen.N,
                                       !.visitas_estado = chosen.visitas_estado]
           /\ IF is_applicable(estado, chosen.accion)
              THEN /\ partida' = [partida EXCEPT
                          !.accion = chosen.accion,
                          !.trayectoria = Recorded(@, jugador_actual, estado, chosen.accion),
                          !.estado = transition(estado, chosen.accion),
                          !.movimientos = @ + 1]
                   /\ pc' = "ply"
              ELSE /\ partida' = [partida EXCEPT !.accion = chosen.accion]
                   /\ pc' = "crashed"
    /\ UNCHANGED <<policyVars, hostVars, entrenador>>

\* the end of jugar_partida: the winner, the reward and the tallies
PartidaEnd ==
    /\ pc = "ply"
    /\ is_final(partida.estado) \/ partida.movimientos >= MaxPlies
    /\ LET ganador == get_winner(partida.estado)
       IN  entrenador' =
               IF ganador = -1
               THEN [entrenador EXCEPT !.recompensa = Unit, !.victorias = @ + 1]
               ELSE IF ganador = 1
               THEN [entrenador EXCEPT !.recompensa = 0 - Unit, !.derrotas = @ + 1]
               ELSE [entrenador EXCEPT !.recompensa = 0, !.empates = @ + 1]
    /\ pc' = "credit"
    /\ UNCHANGED <<policyVars, hostVars, agente, partida>>

\* self.actualizar_q_values(trayectoria, recompensa)
Credit ==
    /\ pc = "credit"
    /\ LET after == actualizar_q_values(agente, partida.trayectoria, entrenador.recompensa)
       IN  /\ agente' = after.agente
           /\ partida' = [partida EXCEPT !.retornos = after.retornos]
    /\ pc' = "decay"
    /\ UNCHANGED <<policyVars, hostVars, entrenador>>

\* self.agente.actualizar_epsilon()
Decay ==
    /\ pc = "decay"
    /\ agente' = actualizar_epsilon(agente)
    /\ pc' = "checkpoint"
    /\ UNCHANGED <<policyVars, hostVars, partida, entrenador>>

\* mutant: the episodes are counted from 0, as range(self.episodios) would
Due_counted_from_zero(ep) == (ep - 1) % CheckpointInterval = 0

\* "if ep % 100 == 0"
Due(ep) == ep % CheckpointInterval = 0

\* mutant: guardar_modelo_final() is called inside the loop body
AfterEpisode_save_in_loop(ep, episodios) == "save"

\* where entrenar() goes after the body of episode ep: the next turn of
\* "for ep in range(1, self.episodios + 1)", or the call after the loop
AfterEpisode(ep, episodios) == IF ep < episodios THEN "episode" ELSE "save"

\* the rest of the loop body: on every CheckpointInterval-th episode the average
\* Q is appended to the history and a checkpoint written; then the next episode,
\* or the end of the loop
EpisodeTail ==
    /\ pc = "checkpoint"
    /\ LET ep == entrenador.ep
       IN  entrenador' = [entrenador EXCEPT
               !.historial_q = IF Due(ep) THEN @ + 1 ELSE @,
               !.checkpoints = IF Due(ep) THEN @ \cup {ep} ELSE @,
               !.ep = IF AfterEpisode(ep, entrenador.episodios) = "episode" THEN ep + 1 ELSE ep]
    /\ pc' = AfterEpisode(entrenador.ep, entrenador.episodios)
    /\ UNCHANGED <<policyVars, hostVars, agente, partida>>

\* guardar_modelo_final()
GuardarModeloFinal ==
    /\ pc = "save"
    /\ entrenador' = [entrenador EXCEPT !.guardado = @ + 1]
    /\ pc' = "trained"
    /\ UNCHANGED <<policyVars, hostVars, agente, partida>>

\* entrenar()
NextTrain ==
    \/ PartidaBegin
    \/ Ply
    \/ PartidaEnd
    \/ Credit
    \/ Decay
    \/ EpisodeTail
    \/ GuardarModeloFinal

SpecTrain == InitTrain /\ [][NextTrain]_vars

(***************************************************************************)
(* Long training runs, which reach the checkpoint episodes.  Each episode  *)
(* of such a run takes one given stream of draws, so that a run is one     *)
(* behaviour: odd and even episodes, exploring and greedy draws, games     *)
(* against the random opponent and against the agent itself all occur.     *)
(***************************************************************************)
\* the numbers of episodes of the long runs
LongRuns == {CheckpointInterval - 1, CheckpointInterval + 1, 2 * CheckpointInterval}

\* the draws of episode ep of a long run
SeededStream(ep) ==
    [game |-> (ep % Len(TrainScripts)) + 1, u |-> IF ep % 2 = 0 THEN 0 ELSE 999999]

\* random.random() < self.prob_aleatorio in episode ep of a long run
SeededContra(ep) == ep % 3 # 0

InitTrainLong ==
    /\ PolicyIdle
    /\ NoHost
    /\ \E c \in {d \in TrainConfigs : d.epsilon_decay = Fraction(995, 1000)}, e \in LongRuns :
           /\ agente = AgenteQ(c)
           /\ entrenador = [episodios |-> e, ep |-> 1, victorias |-> 0,
                            derrotas |-> 0, empates |-> 0, recompensa |-> 0,
                            historial_q |-> 0, checkpoints |-> {}, guardado |-> 0]
    /\ partida = NoPartida
    /\ pc = "episode"

PartidaBeginSeeded ==
    PartidaWith({SeededContra(entrenador.ep)}, {SeededStream(entrenador.ep)})

NextTrainLong ==
    \/ PartidaBeginSeeded
    \/ Ply
    \/ PartidaEnd
    \/ Credit
    \/ Decay
    \/ EpisodeTail
    \/ GuardarModeloFinal

SpecTrainLong == InitTrainLong /\ [][NextTrainLong]_vars

(***************************************************************************)
(* _simulate step by step: one call on a node, the rollout loop one turn   *)
(* at a time.  The node's state is any position of the games above, of the *)
(* training games, or of two games that fill the central columns.          *)
(***************************************************************************)
RolloutGames ==
    << <<4, 3, 4, 3, 4, 4, 4, 4, 2, 3, 2, 2, 2, 2, 3, 3, 2, 3>>,
       <<1, 5, 1, 3, 4, 3, 1, 5, 4, 1, 2, 4, 2, 3, 1, 2, 3, 1, 5, 5, 3, 5, 3, 2, 4, 4, 2, 2, 4,
         5>> >>

\* the positions of a game, from the empty board to its last
Positions(moves) ==
    {Replay(SubSeq(moves, 1, k), 1, ConnectState(EmptyBoard, -1)) : k \in 0 .. Len(moves)}

RolloutStarts ==
    UNION ({Positions(Games[g]) : g \in {h \in 1 .. NumBoards : h <= Len(Games)}}
           \cup {Positions(TrainScripts[g]) : g \in 1 .. Len(TrainScripts)}
           \cup {Positions(RolloutGames[g]) : g \in 1 .. Len(RolloutGames)})

ConfigsRollout(v) ==
    [num_simulations : {1}, exploration_weight : {DefaultExploration},
     rollout_depth : IF v = "B" THEN {RandomMaxMoves} ELSE Depths,
     heuristics_enabled : IF v = "B" THEN {FALSE} ELSE BOOLEAN,
     usar_qtable : {FALSE}, peso_q : {0}, qtable : {{}}]

InitRollout ==
    /\ variant \in {"A", "B", "C"}
    /\ cfg \in ConfigsRollout(variant)
    /\ \E st \in RolloutStarts :
           /\ variant = "B" => CountPieces(st.board, 0) <= MaxRandomEmpty
           /\ board = st.board
           /\ tree = <<MCTS(st, None, -1)>>
    /\ node = 1
    /\ jugador \in {-1, 1}
    /\ sim = 0
    /\ reward2 = 0
    /\ pc = "simulate"
    /\ result = -1
    /\ call = 1
    /\ prev = -1
    /\ NotTraining
    /\ NoHost
    /\ NoRollout

\* _simulate up to its loop: the local state on a copy of the node's board
SimulateBegin ==
    /\ pc = "simulate"
    /\ rollout' = [current_state |-> ConnectState(tree[node].state.board,
                                                  tree[node].state.player),
                   max_moves |-> IF variant = "B" THEN RandomMaxMoves ELSE cfg.rollout_depth,
                   moves |-> 0, action |-> -1, broke |-> FALSE]
    /\ pc' = "rollout"
    /\ UNCHANGED <<variant, cfg, board, tree, node, jugador, sim, reward2, result, call, prev>>
    /\ UNCHANGED <<trainVars, hostVars>>

\* mutant: the loop is "while True", without the depth limit
RolloutOver_without_depth(r) ==
    \/ r.broke
    \/ is_final(r.current_state)
    \/ Len(get_free_cols(r.current_state)) = 0

\* the rollout loop is left: by the except clause, the depth limit, a final
\* position or an empty list of legal columns
RolloutOver(r) ==
    \/ r.broke
    \/ r.moves >= r.max_moves
    \/ is_final(r.current_state)
    \/ Len(get_free_cols(r.current_state)) = 0

\* one turn of the rollout loop
RolloutStep ==
    /\ pc = "rollout"
    /\ ~RolloutOver(rollout)
    /\ LET st == rollout.current_state
           available == get_free_cols(st)
       IN  \E action \in (IF variant = "B" THEN Range(available)
                          ELSE IF cfg.heuristics_enabled
                          THEN {_select_heuristic_action(st, available)}
                          ELSE {_select_fast_action(st, available)}) :
               IF is_applicable(st, action)
               THEN /\ rollout' = [rollout EXCEPT !.current_state = transition(st, action),
                                                  !.moves = @ + 1,
                                                  !.action = action]
                    /\ tree' = [tree EXCEPT ![node] = NodeAfterMove(@, transition(st, action))]
               ELSE /\ rollout' = [rollout EXCEPT !.action = action, !.broke = TRUE]
                    /\ tree' = tree
    /\ pc' = "rollout"
    /\ UNCHANGED <<variant, cfg, board, node, jugador, sim, reward2, result, call, prev>>
    /\ UNCHANGED <<trainVars, hostVars>>

\* the end of _simulate: the reward, from the winner of the state reached
SimulateReturn ==
    /\ pc = "rollout"
    /\ RolloutOver(rollout)
    /\ reward2' = Reward2(rollout.current_state, jugador)
    /\ pc' = "backprop"
    /\ UNCHANGED <<variant, cfg, board, tree, node, jugador, sim, result, call, prev, rollout>>
    /\ UNCHANGED <<trainVars, hostVars>>

NextRollout ==
    \/ SimulateBegin
    \/ RolloutStep
    \/ SimulateReturn

SpecRollout == InitRollout /\ [][NextRollout]_vars

(***************************************************************************)
(* gui_game.py: Connect4GUI, a human (red, -1, moves first) against a      *)
(* policy.                                                                 *)
(*                                                                         *)
(* Threads.  The handlers on_click, new_game and the callbacks given to    *)
(* root.after run on Tk's thread, one at a time, wherever that thread runs *)
(* an event loop: mainloop, the root.update() of make_player_move (which   *)
(* handles the pending events before the worker is started) and the loop   *)
(* of an open messagebox (which handles timers but, being modal, no click  *)
(* and no button).  Every AI move is computed by make_ai_move on a thread  *)
(* of its own; the steps of these threads interleave with the handlers.    *)
(*                                                                         *)
(* gui.starting counts the make_player_move activations that are inside    *)
(* root.update(); gui.modal is the stack of open message boxes, "unlock"   *)
(* for one opened by apply_ai_move, whose finally clause runs when it is   *)
(* closed.  The fields game (the number of new_game calls so far), moves   *)
(* (who made each move of the current game), and the board and game kept   *)
(* with a worker's result record what happened; the code does not have     *)
(* them.                                                                   *)
(***************************************************************************)
MaxGames == 2        \* GUI: new_game presses
MaxClicks == 4       \* GUI: clicks that put a piece on the board
SoundGames == 1      \* GUI: games against a sound policy, followed to their end
FaultyGames == 2     \* GUI: games against a faulty policy
FaultyClicks == 2    \* GUI: clicks against a faulty policy

\* the columns the user clicks, and the columns a policy answers
GuiClicks == {0, 1}

AiColumns == {0, 2}

\* a column that is not on the board
NoColumn == 7

\* what act(board) may do: a sound policy returns a legal column; a faulty one
\* may also return a column that is not legal, or raise
ActOutcomes(policy, b) ==
    {c \in AiColumns : is_applicable(ConnectState(b, -1), c)}
        \cup (IF policy = "faulty" THEN {NoColumn, Raised} ELSE {})

\* Connect4GUI.__init__: a policy class is selected, no game is started
GuiWith(policies) ==
    /\ PolicyIdle
    /\ NotTraining
    /\ ruta = <<>>
    /\ claves = <<>>
    /\ pc = "mainloop"
    /\ \E policy \in policies :
           gui = [selected_policy |-> policy,
                  game_state |-> ConnectState(EmptyBoard, -1),
                  ai_instance |-> None,
                  game_over |-> FALSE,
                  ai_thinking |-> FALSE,
                  starting |-> 0,
                  workers |-> {},
                  timers |-> {},
                  modal |-> <<>>,
                  spawned |-> 0,
                  game |-> 0,
                  moves |-> <<>>,
                  clicks |-> 0]

InitGui == GuiWith({"sound"})

\* the user can reach the window: no message box is open
InputOpen == gui.modal = <<>>

\* new_game()
new_game(g) ==
    [g EXCEPT !.game_state = ConnectState(EmptyBoard, -1),
              !.ai_instance = g.game + 1,
              !.game_over = FALSE,
              !.ai_thinking = FALSE,
              !.game = @ + 1,
              !.moves = <<>>]

NewGame ==
    /\ InputOpen
    /\ gui' = new_game(gui)
    /\ UNCHANGED <<policyVars, trainVars, ruta, claves, pc>>

\* mutant: the AI's move is applied without the finally clause
apply_ai_move_without_finally(g, t) ==
    IF is_applicable(g.game_state, t.col)
    THEN LET next == transition(g.game_state, t.col)
         IN  IF is_final(next)
             THEN [g EXCEPT !.game_state = next, !.moves = Append(@, "A"),
                            !.game_over = TRUE, !.modal = Append(@, "info")]
             ELSE [g EXCEPT !.game_state = next, !.moves = Append(@, "A"),
                            !.ai_thinking = FALSE]
    ELSE [g EXCEPT !.modal = Append(@, "info")]

\* apply_ai_move(col) up to its return or to the message box it opens
apply_ai_move(g, t) ==
    IF is_applicable(g.game_state, t.col)
    THEN LET next == transition(g.game_state, t.col)
         IN  IF is_final(next)
             THEN [g EXCEPT !.game_state = next, !.moves = Append(@, "A"),
                            !.game_over = TRUE, !.modal = Append(@, "unlock")]
             ELSE [g EXCEPT !.game_state = next, !.moves = Append(@, "A"),
                            !.ai_thinking = FALSE]
    ELSE [g EXCEPT !.modal = Append(@, "unlock")]

\* make_player_move(col) up to its return, to the message box it opens or to
\* root.update()
make_player_move(g, col) ==
    IF ~is_applicable(g.game_state, col)
    THEN [g EXCEPT !.modal = Append(@, "info")]
    ELSE LET next == transition(g.game_state, col)
         IN  IF is_final(next)
             THEN [g EXCEPT !.game_state = next, !.moves = Append(@, "H"),
                            !.clicks = @ + 1,
                            !.game_over = TRUE, !.modal = Append(@, "info")]
             ELSE [g EXCEPT !.game_state = next, !.moves = Append(@, "H"),
                            !.clicks = @ + 1,
                            !.ai_thinking = TRUE, !.starting = @ + 1]

\* on_click(event), the event's column being col
on_click(g, col) ==
    IF g.game_over \/ g.ai_thinking \/ g.ai_instance = None THEN g
    ELSE IF col \in ColIdx THEN make_player_move(g, col)
    ELSE g

OnClick ==
    /\ InputOpen
    /\ \E col \in GuiClicks \cup {NoColumn} : gui' = on_click(gui, col)
    /\ UNCHANGED <<policyVars, trainVars, ruta, claves, pc>>

\* root.update() returns and make_player_move starts the worker thread
ThreadStart ==
    /\ gui.starting > 0
    /\ gui.modal = <<>>
    /\ gui' = [gui EXCEPT !.starting = @ - 1,
                          !.spawned = @ + 1,
                          !.workers = @ \cup {[id |-> gui.spawned + 1, at |-> "start",
                                               board |-> EmptyBoard, game |-> 0]}]
    /\ UNCHANGED <<policyVars, trainVars, ruta, claves, pc>>

\* make_ai_move: self.ai_instance.act(self.game_state.board) is called
MakeAiMoveCall ==
    /\ \E w \in gui.workers :
           /\ w.at = "start"
           /\ gui' = [gui EXCEPT !.workers = (@ \ {w})
                          \cup {[w EXCEPT !.at = "act", !.board = gui.game_state.board,
                                          !.game = gui.game]}]
    /\ UNCHANGED <<policyVars, trainVars, ruta, claves, pc>>

\* make_ai_move: act returns and the move is handed to Tk's thread,
\* root.after(300, lambda: self.apply_ai_move(ai_col))
MakeAiMoveReturn ==
    /\ \E w \in gui.workers :
           /\ w.at = "act"
           /\ \E ai_col \in ActOutcomes(gui.selected_policy, w.board) \ {Raised} :
                  gui' = [gui EXCEPT !.workers = @ \ {w},
                                     !.timers = @ \cup {[id |-> w.id, callback |-> "apply",
                                                         col |-> ai_col, board |-> w.board,
                                                         game |-> w.game]}]
    /\ UNCHANGED <<policyVars, trainVars, ruta, claves, pc>>

\* make_ai_move: act raises; the handler asks Tk's thread for an error box
MakeAiMoveExcept ==
    /\ \E w \in gui.workers :
           /\ w.at = "act"
           /\ Raised \in ActOutcomes(gui.selected_policy, w.board)
           /\ gui' = [gui EXCEPT !.workers = (@ \ {w}) \cup {[w EXCEPT !.at = "except"]},
                                 !.timers = @ \cup {[id |-> w.id, callback |-> "showerror",
                                                     col |-> -1, board |-> w.board,
                                                     game |-> w.game]}]
    /\ UNCHANGED <<policyVars, trainVars, ruta, claves, pc>>

\* make_ai_move: the handler's last statement, self.ai_thinking = False
MakeAiMoveUnlock ==
    /\ \E w \in gui.workers :
           /\ w.at = "except"
           /\ gui' = [gui EXCEPT !.workers = @ \ {w}, !.ai_thinking = FALSE]
    /\ UNCHANGED <<policyVars, trainVars, ruta, claves, pc>>

\* Tk runs the callback of a finished worker: apply_ai_move(col)
ApplyAiMove ==
    /\ \E t \in gui.timers :
           /\ t.callback = "apply"
           /\ gui' = apply_ai_move([gui EXCEPT !.timers = @ \ {t}], t)
    /\ UNCHANGED <<policyVars, trainVars, ruta, claves, pc>>

\* Tk runs the callback of a worker whose act raised: messagebox.showerror
ShowError ==
    /\ \E t \in gui.timers :
           /\ t.callback = "showerror"
           /\ gui' = [gui EXCEPT !.timers = @ \ {t}, !.modal = Append(@, "info")]
    /\ UNCHANGED <<policyVars, trainVars, ruta, claves, pc>>

\* the user closes the message box on top; one opened by apply_ai_move returns
\* into its finally clause, self.ai_thinking = False
Dismiss ==
    /\ gui.modal # <<>>
    /\ gui' = [gui EXCEPT !.modal = SubSeq(@, 1, Len(@) - 1),
                          !.ai_thinking = IF gui.modal[Len(gui.modal)] = "unlock"
                                          THEN FALSE ELSE @]
    /\ UNCHANGED <<policyVars, trainVars, ruta, claves, pc>>

\* a game against a policy whose act returns legal columns
NextGui ==
    \/ gui.game < MaxGames /\ NewGame
    \/ gui.clicks < MaxClicks /\ OnClick
    \/ ThreadStart
    \/ MakeAiMoveCall
    \/ MakeAiMoveReturn
    \/ ApplyAiMove
    \/ Dismiss

SpecGui == InitGui /\ [][NextGui]_vars

\* what runs without the user: the worker threads and Tk's callbacks; and the
\* user closes a message box that is open
GuiRuns ==
    \/ ThreadStart
    \/ MakeAiMoveCall
    \/ MakeAiMoveReturn
    \/ MakeAiMoveExcept
    \/ MakeAiMoveUnlock
    \/ ApplyAiMove
    \/ ShowError
    \/ Dismiss

InitGuiAny == GuiWith({"sound", "faulty"})

\* how long the user plays against each policy: one long game against a sound
\* one, short games started over against a faulty one
GamesAgainst(policy) == IF policy = "faulty" THEN FaultyGames ELSE SoundGames

ClicksAgainst(policy) == IF policy = "faulty" THEN FaultyClicks ELSE MaxClicks

\* a game against any policy
NextGuiAny ==
    \/ gui.game < GamesAgainst(gui.selected_policy) /\ NewGame
    \/ gui.clicks < ClicksAgainst(gui.selected_policy) /\ OnClick
    \/ GuiRuns

\* act() returns or raises, threads and Tk's event loop keep running, and
\* message boxes get closed
SpecGuiLive == InitGuiAny /\ [][NextGuiAny]_vars /\ WF_vars(GuiRuns)

(***************************************************************************)
(* Properties.                                                             *)
(***************************************************************************)
\* the state act() builds from the board it is given
RootState == ConnectState(board, current_player(board))

LegalCols == {c \in ColIdx : board[0][c] = 0}

\* the board with a piece of player p dropped in column c
Dropped(c, p) == [board EXCEPT ![DropRow(board, c)][c] = p]

\* the legal columns in which the acting player completes four in a row at once
WinCols == {c \in LegalCols : HasFour(Dropped(c, RootState.player), RootState.player)}

\* the legal columns in which the opponent would complete four in a row at once
OppWinCols ==
    {c \in LegalCols : HasFour(Dropped(c, 0 - RootState.player), 0 - RootState.player)}

Least(S) == CHOOSE x \in S : \A y \in S : x <= y

ShortCircuits == variant \in {"A", "C"}

\* C1: when some legal column wins at once for the acting player, act() of the
\* short-circuiting policies returns the lowest such column, whatever the budget,
\* exploration weight, rollout depth, heuristic toggle and table weight, and runs
\* no simulation (no tree is built).
C1_ImmediateWin ==
    (ShortCircuits /\ pc = "done" /\ WinCols # {})
        => /\ result = Least(WinCols)
           /\ tree = <<>>
           /\ sim = 0

\* the win is taken although a lower column would have blocked the opponent, and
\* although a simulation budget was configured
C1_Witness ==
    /\ ShortCircuits /\ pc = "done" /\ WinCols # {}
    /\ OppWinCols # {} /\ Least(OppWinCols) < Least(WinCols)
    /\ cfg.num_simulations > 0
    /\ result = Least(WinCols)

\* C2: with no winning column but some legal column in which the opponent would
\* win at once, act() returns the lowest such column, and after that move the cell
\* the opponent needed there holds the acting player's piece.
C2_Block ==
    (ShortCircuits /\ pc = "done" /\ WinCols = {} /\ OppWinCols # {})
        => /\ result = Least(OppWinCols)
           /\ tree = <<>>
           /\ transition(RootState, result).board[DropRow(board, result)][result]
                  = RootState.player

\* a block among several threatened columns, none of them the first legal column
C2_Witness ==
    /\ ShortCircuits /\ pc = "done" /\ WinCols = {}
    /\ Cardinality(OppWinCols) >= 2
    /\ Least(OppWinCols) # Least(LegalCols)
    /\ result = Least(OppWinCols)

\* C3: whatever the policy and its configuration (budget 0 and the table-only
\* bypass included), the column act() returns is a legal column of the board, and
\* act() never ends in an exception.
C3_LegalMove ==
    /\ pc # "crashed"
    /\ pc = "done" => result \in LegalCols

\* a search with budget 0 on a board whose first column is full
C3_Witness ==
    /\ pc = "done" /\ cfg.num_simulations = 0 /\ Len(tree) = 1
    /\ 0 \notin LegalCols
    /\ result \in LegalCols

\* the sum of the visit counts of the children of node k
RECURSIVE SumVisits(_, _, _)
SumVisits(t, kids, i) ==
    IF i > Len(kids) THEN 0 ELSE t[kids[i]].visits + SumVisits(t, kids, i + 1)

ChildVisits(t, k) == SumVisits(t, t[k].children, 1)

\* the number of moves between the root and node k
RECURSIVE Depth(_, _)
Depth(t, k) == IF t[k].parent = None THEN 0 ELSE 1 + Depth(t, t[k].parent)

\* the search of this call has run its whole budget
SearchOver == pc \in {"choose", "done"} /\ Len(tree) > 0

\* C4: after a search of budget B >= 1 the visit counts of the root's children
\* add up to B, which is also the root's visit count; and at the head of every
\* iteration both equal the number of simulations completed so far.
C4_RootVisits ==
    /\ (SearchOver /\ cfg.num_simulations >= 1)
           => /\ ChildVisits(tree, 1) = cfg.num_simulations
              /\ tree[1].visits = cfg.num_simulations
              /\ sim = cfg.num_simulations
    /\ (pc = "select" /\ node = 1)
           => /\ ChildVisits(tree, 1) = sim
              /\ tree[1].visits = sim

\* a finished search whose budget exceeds the number of root children, so that
\* simulations went through the same root child more than once
C4_Witness ==
    /\ SearchOver /\ pc = "done"
    /\ cfg.num_simulations > Len(tree[1].children)
    /\ Len(tree[1].children) >= 2
    /\ ChildVisits(tree, 1) = cfg.num_simulations

\* C5: at the end of a search act() returns the action of a root child with the
\* highest visit count, every child inserted before it having strictly fewer
\* visits; with no root child it returns the first legal column.
C5_MostVisited ==
    (pc = "done" /\ Len(tree) > 0)
        => IF Len(tree[1].children) = 0
           THEN result = Least(LegalCols)
           ELSE \E i \in 1 .. Len(tree[1].children) :
                    /\ tree[tree[1].children[i]].action = result
                    /\ \A j \in 1 .. Len(tree[1].children) :
                           /\ tree[tree[1].children[j]].visits
                                  <= tree[tree[1].children[i]].visits
                           /\ j < i => tree[tree[1].children[j]].visits
                                           < tree[tree[1].children[i]].visits

\* two children tied for the highest count, the earlier one returned
C5_WitnessTie ==
    /\ pc = "done" /\ Len(tree) > 0 /\ Len(tree[1].children) >= 2
    /\ \E i, j \in 1 .. Len(tree[1].children) :
           /\ i < j
           /\ tree[tree[1].children[i]].action = result
           /\ tree[tree[1].children[j]].visits = tree[tree[1].children[i]].visits
           /\ tree[tree[1].children[i]].visits >= 2

\* C6: a backpropagation pass adds exactly 1 to the visit count of every node
\* from the reached node up to the root, and leaves the visit count and the win
\* score of every other node, and the shape of the tree, as they were.
C6_BackpropFrame ==
    [][pc = "backprop" =>
          /\ Len(tree') = Len(tree)
          /\ \A i \in 1 .. Len(tree) :
                 /\ tree'[i].parent = tree[i].parent
                 /\ tree'[i].children = tree[i].children
                 /\ IF i \in PathToRoot(tree, node)
                    THEN tree'[i].visits = tree[i].visits + 1
                    ELSE /\ tree'[i].visits = tree[i].visits
                         /\ tree'[i].wins2 = tree[i].wins2]_vars

\* a pass has run from a node two levels below the root while other nodes,
\* visited before, lay off its path
C6_Witness ==
    /\ pc \in {"select", "choose"} /\ sim >= 3
    /\ \E i \in 1 .. Len(tree) :
           /\ Depth(tree, i) = 2
           /\ tree[i].visits = 1
           /\ \E j \in 1 .. Len(tree) :
                  j \notin PathToRoot(tree, i) /\ tree[j].visits >= 1

\* C7: in a backpropagation pass with reward r, a node of the path gets r when it
\* is the root or its parent's state has the acting player to move, 1 - r
\* otherwise; so the root and the nodes at odd depth get r, those at even depth
\* >= 2 get 1 - r.
C7_Credit ==
    [][pc = "backprop" =>
          \A i \in PathToRoot(tree, node) :
              /\ tree'[i].wins2 - tree[i].wins2 =
                     IF tree[i].parent = None
                            \/ tree[tree[i].parent].state.player = jugador
                     THEN reward2 ELSE 2 - reward2
              /\ tree'[i].wins2 - tree[i].wins2 =
                     IF Depth(tree, i) = 0 \/ Depth(tree, i) % 2 = 1
                     THEN reward2 ELSE 2 - reward2]_vars

\* a pass with a decisive reward has credited a node two levels below the root
\* with the inverted reward and its parent with the reward itself
C7_Witness ==
    /\ pc \in {"select", "choose"} /\ reward2 # 1
    /\ \E i \in 1 .. Len(tree) :
           /\ Depth(tree, i) = 2
           /\ tree[i].visits = 1
           /\ tree[i].wins2 = 2 - reward2
           /\ i = Len(tree)

\* C9: every best_child call of the selection loop is on a node with at least
\* one visit and one child, all its children visited, and returns a child; every
\* expand() call of act() returns a child; a rollout never starts on None.
C9_SelectionSafe ==
    /\ (pc = "select" /\ ~is_terminal(tree[node]) /\ is_fully_expanded(tree[node]))
           => /\ tree[node].visits >= 1
              /\ Len(tree[node].children) >= 1
              /\ \A i \in 1 .. Len(tree[node].children) :
                     tree[tree[node].children[i]].visits >= 1
              /\ best_child(tree, node, cfg.exploration_weight)
                     \in Range(tree[node].children)
    /\ (pc = "select" /\ ~is_terminal(tree[node]) /\ ~is_fully_expanded(tree[node]))
           => expand(tree, node).child # None
    /\ pc = "simulate" => node \in 1 .. Len(tree)
    /\ pc # "crashed"

\* best_child is being called on a node below the root
C9_Witness ==
    /\ pc = "select" /\ node # 1
    /\ ~is_terminal(tree[node]) /\ is_fully_expanded(tree[node])
    /\ best_child(tree, node, cfg.exploration_weight) \in Range(tree[node].children)

\* the children of the parent that have no visit, in insertion order
Unvisited == SelectSeq(tree[1].children, LAMBDA c : tree[c].visits = 0)

\* C8: best_child on a parent with at least one unvisited child returns the
\* first unvisited child in insertion order, whatever the scores of the visited
\* children before and after it.
C8_UnvisitedFirst ==
    (pc = "returned" /\ Len(Unvisited) > 0) => node = Unvisited[1]

\* the returned child comes after a visited child that won every rollout, and
\* before another unvisited child
C8_Witness ==
    /\ pc = "returned" /\ Len(Unvisited) >= 2
    /\ node = Unvisited[1]
    /\ node # tree[1].children[1]
    /\ tree[tree[1].children[1]].wins2 = 2 * tree[tree[1].children[1]].visits

\* C10: with heuristic or fast rollouts, a second act() call on the same policy
\* instance, board, configuration and table returns the column the first call
\* returned.
C10_Deterministic ==
    (pc = "done" /\ call >= 2) => result = prev

\* a second search that went through UCB1 selection has returned the same column
C10_Witness ==
    /\ pc = "done" /\ call = 2 /\ result = prev
    /\ Len(tree) > 0
    /\ cfg.num_simulations > Len(tree[1].children)
    /\ Len(tree[1].children) >= 2

\* the cells in which two boards differ
DifferingCells(b1, b2) == {rc \in RowIdx \X ColIdx : b1[rc[1]][rc[2]] # b2[rc[1]][rc[2]]}

\* C11: the table key is a function of (board, player, action) and is injective:
\* equal triples have equal keys, and triples that differ in the board, the player
\* or the action have different keys, with the policy's key function and with the
\* trainer's.
C11_KeyInjective ==
    pc = "encoded"
        => /\ (claves.ka = claves.kb) <=> (claves.a = claves.b)
           /\ (claves.ta = claves.tb) <=> (claves.a = claves.b)

\* two boards that differ in the last cell of the flattened board only, a 1
\* against a -1, with the same player and action, got different keys
C11_Witness ==
    /\ pc = "encoded"
    /\ DifferingCells(claves.a.board, claves.b.board) = {<<5, 6>>}
    /\ claves.a.board[5][6] = 1 /\ claves.b.board[5][6] = -1
    /\ claves.a.player = claves.b.player /\ claves.a.action = claves.b.action
    /\ claves.ka # claves.kb /\ claves.ta # claves.tb

\* C12: in every tree of a search every node has at most as many children as
\* available actions, and its children's actions, in insertion order, are the
\* first actions of its available_actions list; expand() on a node that is not
\* fully expanded appends one node, the child for the first available action
\* without a child, and on a fully expanded node returns None and the tree as it
\* was.
C12_ExpandPrefix ==
    \A k \in 1 .. Len(tree) :
        LET n == tree[k]
            e == expand(tree, k)
        IN  /\ Len(n.children) <= Len(n.available_actions)
            /\ n.available_actions = get_free_cols(n.state)
            /\ ChildActions(tree, n) = SubSeq(n.available_actions, 1, Len(n.children))
            /\ IF is_fully_expanded(n)
               THEN e.child = None /\ e.tree = tree
               ELSE /\ e.child = Len(tree) + 1
                    /\ Len(e.tree) = Len(tree) + 1
                    /\ e.tree[e.child].action = n.available_actions[Len(n.children) + 1]
                    /\ e.tree[e.child].parent = k
                    /\ e.tree[e.child].state = transition(n.state, e.tree[e.child].action)
                    /\ e.tree[k].children = Append(n.children, e.child)
                    /\ \A j \in 1 .. Len(tree) : j # k => e.tree[j] = tree[j]

\* a tree with a fully expanded root of three children none of which is column 0,
\* and below it a node with some but not all of its children
C12_Witness ==
    /\ Len(tree) > 0 /\ pc = "choose"
    /\ Len(tree[1].children) = 3 /\ is_fully_expanded(tree[1])
    /\ tree[1].available_actions[1] # 0
    /\ \E k \in 2 .. Len(tree) :
           /\ Len(tree[k].children) >= 1
           /\ ~is_fully_expanded(tree[k])

\* the states in which the rollout started on node k can stop
RolloutStops(k) ==
    IF variant = "B" THEN RandomRolloutEnds(tree[k].state, 0)
    ELSE {RolloutEnd(tree[k].state, 0, cfg.rollout_depth, cfg.heuristics_enabled)}

\* C13: the reward of a rollout is 1.0, 0.5 or 0.0: 1.0 exactly when the state
\* in which the rollout stopped has four in a row of the perspective player, 0.0
\* exactly when it has four in a row of the other player, and 0.5 exactly when it
\* has neither (a draw, or the depth limit reached on an unfinished position).
C13_SimulateReward ==
    [][pc = "simulate" =>
          /\ reward2' \in {0, 1, 2}
          /\ \E e \in RolloutStops(node) :
                 /\ (reward2' = 2) <=> HasFour(e.board, jugador)
                 /\ (reward2' = 0) <=> HasFour(e.board, 0 - jugador)
                 /\ (reward2' = 1) <=> (~HasFour(e.board, jugador)
                                         /\ ~HasFour(e.board, 0 - jugador))]_vars

\* a rollout of the heuristic or fast selector has hit its depth limit on an
\* unfinished position, after at least one move, and was scored 0.5
C13_Witness ==
    /\ pc = "backprop" /\ variant # "B" /\ reward2 = 1
    /\ \A e \in RolloutStops(node) : ~is_final(e) /\ e.board # tree[node].state.board

\* the entries the policy's table holds for column c of the board act() was given
TableEntries(c) ==
    {e \in cfg.qtable : e[1] = codificar_estado_accion(board, RootState.player, c)}

\* the table value of column c, an absent key counting as 0
TableValue(c) ==
    IF TableEntries(c) = {} THEN 0 ELSE (CHOOSE e \in TableEntries(c) : TRUE)[2]

\* the table is enabled and non-empty and its weight is at least 0.99
TableAtMaximum ==
    variant = "C" /\ cfg.usar_qtable /\ cfg.qtable # {} /\ cfg.peso_q >= 99

\* C14: with the table enabled, non-empty and weighted 0.99 or more, and no
\* immediate win or block on the board, act() builds no tree, runs no simulation
\* and returns the legal column with the highest table value, absent keys counting
\* as 0 and the lowest column winning a tie; with an immediate win or block on the
\* board the short-circuit column is returned instead.
C14_TableBypass ==
    (TableAtMaximum /\ pc = "done")
        => /\ tree = <<>>
           /\ sim = 0
           /\ IF WinCols # {} THEN result = Least(WinCols)
              ELSE IF OppWinCols # {} THEN result = Least(OppWinCols)
              ELSE /\ result \in LegalCols
                   /\ \A c \in LegalCols :
                          /\ TableValue(c) <= TableValue(result)
                          /\ c < result => TableValue(c) < TableValue(result)

\* the bypass returned a column whose key is absent from the table, over a lower
\* column whose entry is negative
C14_Witness ==
    /\ TableAtMaximum /\ pc = "done" /\ WinCols = {} /\ OppWinCols = {}
    /\ TableEntries(result) = {}
    /\ \E c \in LegalCols : c < result /\ TableEntries(c) # {} /\ TableValue(c) < 0

\* the bypass kept the first of two columns tied for the highest value, a column
\* that is not the first legal one
C14_WitnessTie ==
    /\ TableAtMaximum /\ pc = "done" /\ WinCols = {} /\ OppWinCols = {}
    /\ result # Least(LegalCols)
    /\ \E c \in LegalCols : c > result /\ TableValue(c) = TableValue(result)

\* the table takes no part in the scores: its weight is 0, or it is empty and its
\* weight below 1
TableWithoutEffect ==
    variant = "C" /\ (cfg.peso_q = 0 \/ (cfg.qtable = {} /\ cfg.peso_q < 100))

\* C15: with table weight 0, or an empty table and a weight below 1, every
\* mejor_hijo call of the table-blending policy returns the child that best_child
\* of the pure-UCB1 policy returns on the same tree, and act() ends with the tree
\* and the column of Aha.act on the same board, budget, exploration weight,
\* rollout depth and heuristic toggle.  (The last conjunct ties Aha_act to the
\* step-by-step run of Aha itself.)
C15_SameAsUCB1 ==
    /\ (TableWithoutEffect /\ pc = "select"
           /\ ~is_terminal(tree[node]) /\ is_fully_expanded(tree[node]))
           => best_child(tree, node, cfg.exploration_weight)
                  = BestChildOf("A", cfg, tree, tree[node], cfg.exploration_weight, 1, None, 0)
    /\ (TableWithoutEffect /\ pc = "done")
           => /\ result = Aha_act(cfg, board)
              /\ tree = Aha_tree(cfg, board)
    /\ (variant = "A" /\ pc = "done")
           => /\ result = Aha_act(cfg, board)
              /\ tree = Aha_tree(cfg, board)

\* a search of the table-blending policy with weight 0 and a table that holds
\* entries of the root position went through mejor_hijo and returned Aha's column
C15_Witness ==
    /\ TableWithoutEffect /\ pc = "done" /\ cfg.peso_q = 0
    /\ \E c \in LegalCols : TableEntries(c) # {}
    /\ Len(tree) > 0
    /\ cfg.num_simulations > Len(tree[1].children)
    /\ Len(tree[1].children) >= 2
    /\ result = Aha_act(cfg, board)

\* the same with an empty table and the default weight 0.3
C15_WitnessEmpty ==
    /\ TableWithoutEffect /\ pc = "done" /\ cfg.peso_q = DefaultPesoQ /\ cfg.qtable = {}
    /\ cfg.usar_qtable
    /\ Len(tree) > 0
    /\ cfg.num_simulations > Len(tree[1].children)
    /\ Len(tree[1].children) >= 2
    /\ result = Aha_act(cfg, board)

\* the keys of a table
Keys(qtable) == {e[1] : e \in qtable}

\* C16: no step of act() (short-circuit, table bypass, selection with its table
\* lookups, expansion, rollout, backpropagation, final choice) changes the
\* policy's value table, its key set included, or the policy's configuration.
C16_TableFrame ==
    [][/\ cfg' = cfg
       /\ Keys(cfg'.qtable) = Keys(cfg.qtable)
       /\ variant' = variant]_vars

\* a search has gone through mejor_hijo at the root with a non-empty table that
\* holds none of the root's keys, and the table still holds none of them
C16_Witness ==
    /\ variant = "C" /\ cfg.qtable # {} /\ pc = "done"
    /\ Len(tree) > 0
    /\ cfg.num_simulations > Len(tree[1].children)
    /\ Len(tree[1].children) >= 2
    /\ \A c \in LegalCols : TableEntries(c) = {}

\* the file is absent, cannot be opened, is no pickle, unpickles to something
\* that is no record, or to a record without a usable Q field
NoTableOnDisk ==
    \/ ~ruta.exists
    \/ ~ruta.readable
    \/ ruta.data.kind # "dict"
    \/ ~ruta.data.has_Q
    \/ ~ruta.data.mapping

EntryKey(e) == crear_clave_estado_accion(e.estado.board, e.estado.player, e.accion)

EntryStateKey(e) == codificar_estado(e.estado.board, e.estado.player)

\* the entries of a table whose keys are outside the set keys
Outside(d, keys) == {e \in d : e[1] \notin keys}

\* C18: the credit assignment of an episode gives every (state, action) key of the
\* learner's trajectory exactly one Q entry, with value old + alpha * (return -
\* old), adds exactly 1 to the key's N counter and exactly 1 to its state's visit
\* counter, and leaves the entries of all other keys in Q, N and the state
\* counters as they were.
C18_CreditOnce ==
    [][pc = "credit" =>
          LET T == partida.trayectoria
              keys == {EntryKey(T[i]) : i \in 1 .. Len(T)}
              states == {EntryStateKey(T[i]) : i \in 1 .. Len(T)}
          IN  /\ \A i \in 1 .. Len(T) :
                     LET k == EntryKey(T[i])
                         sk == EntryStateKey(T[i])
                         old == QGet(agente.Q, k)
                     IN  /\ Cardinality({e \in agente'.Q : e[1] = k}) = 1
                         /\ QGet(agente'.Q, k)
                                = old + Times(agente.alpha, partida'.retornos[i] - old)
                         /\ QGet(agente'.N, k) = QGet(agente.N, k) + 1
                         /\ QGet(agente'.visitas_estado, sk)
                                = QGet(agente.visitas_estado, sk) + 1
              /\ Outside(agente'.Q, keys) = Outside(agente.Q, keys)
              /\ Outside(agente'.N, keys) = Outside(agente.N, keys)
              /\ Outside(agente'.visitas_estado, states)
                     = Outside(agente.visitas_estado, states)]_vars

\* the credit assignment of the second episode has updated four or more keys,
\* and values written by the first episode are still in Q under other keys
C18_Witness ==
    /\ pc = "decay" /\ entrenador.ep = 2
    /\ Len(partida.trayectoria) >= 4
    /\ \A i \in 1 .. Len(partida.trayectoria) :
           /\ QGet(agente.N, EntryKey(partida.trayectoria[i])) = 1
           /\ QGet(agente.Q, EntryKey(partida.trayectoria[i])) # 0
    /\ \E e \in agente.Q :
           /\ e[2] # 0
           /\ \A i \in 1 .. Len(partida.trayectoria) : e[1] # EntryKey(partida.trayectoria[i])

RECURSIVE Pow(_, _)
Pow(b, k) == IF k = 0 THEN 1 ELSE b * Pow(b, k - 1)

\* the terminal outcome for the learner of the episode's last state
Outcome ==
    IF HasFour(partida.estado.board, -1) THEN Unit
    ELSE IF HasFour(partida.estado.board, 1) THEN 0 - Unit
    ELSE 0

\* C19: the reward of an episode is +1 when the learner (player -1) has four in
\* a row in the last state, -1 when the opponent has, 0 otherwise; and the return
\* used for the trajectory entry with k later entries is gamma^k times that
\* reward, the last entry getting the reward itself.
C19_DiscountedReturn ==
    /\ pc \in {"credit", "decay"} => entrenador.recompensa = Outcome
    /\ pc = "decay" =>
           LET T == partida.trayectoria
           IN  /\ Len(partida.retornos) = Len(T)
               /\ \A i \in 1 .. Len(T) :
                      partida.retornos[i] * Pow(agente.gamma.den, Len(T) - i)
                          = Outcome * Pow(agente.gamma.num, Len(T) - i)
               /\ Len(T) > 0 => partida.retornos[Len(T)] = Outcome

\* a lost episode with gamma 1/2 and four learner moves: the first move's return
\* is -1/8
C19_Witness ==
    /\ pc = "decay" /\ HasFour(partida.estado.board, 1)
    /\ agente.gamma = Fraction(1, 2)
    /\ Len(partida.trayectoria) = 4
    /\ partida.retornos[1] * 8 = 0 - Unit
    /\ partida.retornos[4] = 0 - Unit

\* an episode that ran into the 42-ply limit without a winner: reward 0
C19_WitnessDraw ==
    /\ pc = "decay" /\ partida.movimientos = MaxPlies
    /\ Outcome = 0 /\ entrenador.recompensa = 0
    /\ Len(partida.trayectoria) = 21

\* C20: the epsilon-decay step of every episode replaces epsilon by the larger of
\* epsilon_fin and epsilon * epsilon_decay; no other step changes epsilon; epsilon
\* is never below epsilon_fin and never increases.
C20_EpsilonFloor ==
    [][/\ agente.epsilon >= agente.epsilon_fin
       /\ agente'.epsilon >= agente'.epsilon_fin
       /\ agente'.epsilon <= agente.epsilon
       /\ agente'.epsilon_fin = agente.epsilon_fin
       /\ agente'.epsilon_decay = agente.epsilon_decay
       /\ IF pc = "decay"
          THEN LET decayed == (agente.epsilon * agente.epsilon_decay.num)
                                  \div agente.epsilon_decay.den
               IN  /\ decayed >= agente.epsilon_fin => agente'.epsilon = decayed
                   /\ decayed < agente.epsilon_fin => agente'.epsilon = agente.epsilon_fin
          ELSE agente'.epsilon = agente.epsilon]_vars

\* the second decay went below the floor and was clamped to it
C20_Witness ==
    /\ pc = "checkpoint" /\ entrenador.ep = 2
    /\ agente.epsilon = agente.epsilon_fin
    /\ (agente.epsilon_fin * agente.epsilon_decay.den) \div agente.epsilon_decay.num
           > agente.epsilon_fin

\* the play of the current episode is over
PlayOver == is_final(partida.estado) \/ partida.movimientos >= MaxPlies

\* the episodes played to their end so far
Played == entrenador.victorias + entrenador.derrotas + entrenador.empates

\* C21: every training episode goes through play to the end, credit assignment,
\* epsilon decay and the checkpoint step (which writes only on checkpoint
\* episodes) in this order; the episode number changes only after the checkpoint
\* step, so no phase of the next episode starts before; the final model is saved
\* exactly once, after the last episode.
C21_EpisodeOrder ==
    /\ [](/\ entrenador.guardado = (IF pc = "trained" THEN 1 ELSE 0)
          /\ pc # "crashed"
          /\ Played = (IF pc \in {"episode", "ply"} THEN entrenador.ep - 1 ELSE entrenador.ep))
    /\ [][/\ pc = "episode" => pc' = "ply" /\ partida'.movimientos = 0
          /\ pc = "ply" => \/ pc' = "ply" /\ ~PlayOver
                           \/ pc' = "credit" /\ PlayOver /\ partida' = partida
          /\ pc = "credit" => pc' = "decay" /\ Len(partida'.retornos) = Len(partida.trayectoria)
          /\ pc = "decay" => pc' = "checkpoint"
          /\ pc = "checkpoint" =>
                 /\ entrenador'.checkpoints
                        = entrenador.checkpoints
                              \cup (IF entrenador.ep % 100 = 0 THEN {entrenador.ep} ELSE {})
                 /\ IF entrenador.ep < entrenador.episodios
                    THEN pc' = "episode" /\ entrenador'.ep = entrenador.ep + 1
                    ELSE pc' = "save" /\ entrenador'.ep = entrenador.ep
          /\ pc = "save" => pc' = "trained" /\ entrenador.ep = entrenador.episodios
          /\ pc # "checkpoint" => /\ entrenador'.ep = entrenador.ep
                                  /\ entrenador'.checkpoints = entrenador.checkpoints
          /\ pc # "credit" => /\ {e \in agente'.N : e[2] > 0} = {e \in agente.N : e[2] > 0}
                              /\ partida'.retornos = partida.retornos \/ pc = "episode"
          /\ pc # "decay" => agente'.epsilon = agente.epsilon
          /\ pc # "trained"]_vars

\* a run of 200 episodes has been trained and saved, with both checkpoints written
C21_Witness ==
    /\ pc = "trained" /\ entrenador.guardado = 1
    /\ entrenador.episodios = 2 * CheckpointInterval
    /\ entrenador.ep = entrenador.episodios /\ Played = entrenador.episodios
    /\ entrenador.checkpoints = {CheckpointInterval, 2 * CheckpointInterval}

\* board b2 is board b1 with one more piece, of player p
OneMorePiece(b1, b2, p) ==
    \E r \in RowIdx, c \in ColIdx :
        /\ b1[r][c] = 0 /\ b2[r][c] = p
        /\ \A q \in RowIdx, d \in ColIdx : <<q, d>> # <<r, c>> => b2[q][d] = b1[q][d]

\* C22: the trajectory of an episode holds one entry per learner ply, in play
\* order: entry i is the state before the learner's i-th move, with player -1 to
\* move and 2 * (i - 1) pieces on the board, and the column the learner played
\* there, so that the next recorded state (or the current one) is that move's
\* result, with or without one reply of the opponent; no opponent ply is recorded.
C22_LearnerTrajectory ==
    LET T == partida.trayectoria
    IN  /\ Len(T) = (partida.movimientos + 1) \div 2
        /\ \A i \in 1 .. Len(T) :
               /\ T[i].estado.player = -1
               /\ CountPieces(T[i].estado.board, 0) = ROWS * COLS - 2 * (i - 1)
               /\ CountPieces(T[i].estado.board, 1) = i - 1
               /\ T[i].accion \in Range(get_free_cols(T[i].estado))
               /\ LET played == transition(T[i].estado, T[i].accion).board
                  IN  IF i < Len(T)
                      THEN OneMorePiece(played, T[i + 1].estado.board, 1)
                      ELSE \/ partida.estado.board = played /\ partida.estado.player = 1
                           \/ /\ OneMorePiece(played, partida.estado.board, 1)
                              /\ partida.estado.player = -1

\* an episode of eight plies that the opponent won: four entries, the opponent's
\* last move on the board but not in the trajectory
C22_Witness ==
    /\ pc = "credit" /\ partida.movimientos = 8
    /\ Len(partida.trayectoria) = 4
    /\ get_winner(partida.estado) = 1
    /\ partida.accion = 3 /\ partida.trayectoria[4].accion = 6

\* the selector the side to move uses in the current ply is the epsilon-greedy
\* one (the learner when usar_ucb is off, the agent as opponent when it is on)
MoverUsesEpsilon ==
    IF partida.estado.player = -1 THEN ~partida.usar_ucb
    ELSE ~partida.contra_aleatorio /\ partida.usar_ucb

\* the table value of column col in the current state
QOfColumn(col) ==
    QGet(agente.Q, crear_clave_estado_accion(partida.estado.board, partida.estado.player, col))

\* the legal columns of the current state with the highest table value
BestColumns ==
    LET legal == Range(get_free_cols(partida.estado))
    IN  {c \in legal : \A d \in legal : QOfColumn(c) >= QOfColumn(d)}

\* C23: whenever the epsilon-greedy selector does not explore (the draw is not
\* below epsilon), the column played is the first legal column with the highest
\* table value for the current state, column 0 included.
C23_GreedyBest ==
    [][pc = "ply" /\ pc' = "ply" /\ MoverUsesEpsilon /\ partida.azar.u >= agente.epsilon
          => partida'.accion = Least(BestColumns)]_vars

\* the selector the side to move uses in the current ply is the UCB one
MoverUsesUcb ==
    IF partida.estado.player = -1 THEN partida.usar_ucb
    ELSE ~partida.contra_aleatorio /\ ~partida.usar_ucb

\* the visit counter of the current state, and of column col in it
VisitsOfState ==
    QGet(agente.visitas_estado, codificar_estado(partida.estado.board, partida.estado.player))

NOfColumn(col) ==
    QGet(agente.N, crear_clave_estado_accion(partida.estado.board, partida.estado.player, col))

\* Q + c * sqrt(ln(state visits) / action visits) of column col
UcbOfColumn(col) ==
    QOfColumn(col) + Exploracion(agente.ucb_c, VisitsOfState, NOfColumn(col))

\* the column the UCB rule names in a visited state: the first legal column that
\* was never counted, else the first legal column with the highest UCB value
UcbColumn ==
    LET legal == Range(get_free_cols(partida.estado))
        uncounted == {c \in legal : NOfColumn(c) = 0}
    IN  IF uncounted # {} THEN Least(uncounted)
        ELSE Least({c \in legal : \A d \in legal : UcbOfColumn(c) >= UcbOfColumn(d)})

\* C24: outside the random cases (the current state's visit counter is 0, or the
\* argmax selected no column, which cannot happen over a non-empty column list),
\* the trainer's UCB selector plays the first legal column whose counter is 0, or
\* else the legal column that maximises Q + c * sqrt(ln(state visits) / action
\* visits).
C24_UcbChoice ==
    [][pc = "ply" /\ pc' = "ply" /\ MoverUsesUcb /\ VisitsOfState > 0
          => partida'.accion = UcbColumn]_vars

\* the episodes whose loop body has run to its end
EpisodesDone == IF pc \in {"save", "trained"} THEN entrenador.ep ELSE entrenador.ep - 1

\* C25: the checkpoints written so far are exactly the finished episodes that are
\* multiples of 100, the average-Q history has one sample for each of them, and
\* when the final model is saved after E episodes the history has floor(E / 100)
\* entries.
C25_Checkpoints ==
    /\ entrenador.checkpoints = {e \in 1 .. EpisodesDone : e % 100 = 0}
    /\ entrenador.historial_q = Cardinality(entrenador.checkpoints)
    /\ pc \in {"save", "trained"} =>
           /\ EpisodesDone = entrenador.episodios
           /\ entrenador.historial_q = entrenador.episodios \div 100

\* a run of 101 episodes is about to be saved: one checkpoint, at episode 100, and
\* none for episode 101
C25_Witness ==
    /\ pc = "save" /\ entrenador.episodios = CheckpointInterval + 1
    /\ entrenador.checkpoints = {CheckpointInterval}
    /\ entrenador.historial_q = 1

\* a run of 99 episodes is saved without any checkpoint
C25_WitnessNone ==
    /\ pc = "trained" /\ entrenador.episodios = CheckpointInterval - 1
    /\ entrenador.checkpoints = {} /\ entrenador.historial_q = 0

\* the legal columns of a state, and those in which a piece of player p makes four
LegalOf(st) == {c \in ColIdx : st.board[0][c] = 0}

FourBy(st, p) ==
    {c \in LegalOf(st) : HasFour([st.board EXCEPT ![DropRow(st.board, c)][c] = p], p)}

\* the legal columns nearest to column 3
NearestToCenter(st) ==
    {c \in LegalOf(st) : \A d \in LegalOf(st) : Abs(c - 3) <= Abs(d - 3)}

\* the column the heuristic rule names in st
HeuristicColumn(st) ==
    IF FourBy(st, st.player) # {} THEN Least(FourBy(st, st.player))
    ELSE IF FourBy(st, 0 - st.player) # {} THEN Least(FourBy(st, 0 - st.player))
    ELSE IF 3 \in LegalOf(st) THEN 3
    ELSE Least(NearestToCenter(st))

\* the rollout of policy A or C has just made its first move, by the heuristic
\* selector (or by the fast one)
FirstMoveBy(heuristics) ==
    /\ pc = "rollout" /\ variant \in {"A", "C"} /\ cfg.heuristics_enabled = heuristics
    /\ rollout.moves = 1

\* C26: every move of a heuristic rollout is the first column that wins at once
\* for the mover if there is one; else the first column in which the opponent
\* would win at once if there is one; else column 3 if legal; else the legal
\* column nearest to column 3, the lower one of two equally near.
C26_HeuristicSelector ==
    [][pc = "rollout" /\ variant \in {"A", "C"} /\ cfg.heuristics_enabled
          /\ rollout'.moves = rollout.moves + 1
          => rollout'.action = HeuristicColumn(rollout.current_state)]_vars

\* no win, no block, column 3 full, and two legal columns equally near to it:
\* the lower one was played
C26_Witness ==
    /\ FirstMoveBy(TRUE)
    /\ FourBy(tree[node].state, -1) = {} /\ FourBy(tree[node].state, 1) = {}
    /\ 3 \notin LegalOf(tree[node].state)
    /\ Cardinality(NearestToCenter(tree[node].state)) = 2
    /\ rollout.action = Least(NearestToCenter(tree[node].state))

\* the opponent's winning column was blocked although column 3 was legal
C26_WitnessBlock ==
    /\ FirstMoveBy(TRUE)
    /\ FourBy(tree[node].state, tree[node].state.player) = {}
    /\ 3 \in LegalOf(tree[node].state)
    /\ rollout.action # 3
    /\ rollout.action \in FourBy(tree[node].state, 0 - tree[node].state.player)

\* the column the fast rule names for a set of legal columns
FastColumn(legal) ==
    IF 3 \in legal THEN 3
    ELSE IF legal \cap {2, 4} # {} THEN Least(legal \cap {2, 4})
    ELSE Least(legal)

C27_WitnessOutside ==
    /\ FirstMoveBy(FALSE)
    /\ LegalOf(tree[node].state) \cap {2, 3, 4} = {}
    /\ rollout.action = Least(LegalOf(tree[node].state))

\* column 3 was full and columns 2 and 4 legal: column 2 was played
C27_WitnessBand ==
    /\ FirstMoveBy(FALSE)
    /\ 3 \notin LegalOf(tree[node].state)
    /\ {2, 4} \subseteq LegalOf(tree[node].state)
    /\ rollout.action = 2

\* C28: _simulate leaves the tree as it found it: the node it is called on and
\* every other node keep their state (board and player to move), children,
\* available actions, visits and wins, and no node is added or removed.
C28_SimulateFrame ==
    [][pc = "simulate"
          => /\ Len(tree') = Len(tree)
             /\ node' = node
             /\ \A k \in 1..Len(tree) :
                    /\ tree'[k].state.board = tree[k].state.board
                    /\ tree'[k].state.player = tree[k].state.player
                    /\ tree'[k].children = tree[k].children
                    /\ tree'[k].available_actions = tree[k].available_actions
                    /\ tree'[k].visits = tree[k].visits
                    /\ tree'[k].wins2 = tree[k].wins2
                    /\ tree'[k] = tree[k]]_vars

\* a rollout that moved has returned, in a tree of several nodes
C28_Witness ==
    /\ pc = "backprop"
    /\ Len(tree) >= 3
    /\ ~is_final(tree[node].state)
    /\ Len(get_free_cols(tree[node].state)) > 0
    /\ variant = "B" \/ cfg.rollout_depth > 0

\* the pieces on the board of a state
PiecesOf(st) == ROWS * COLS - CountPieces(st.board, 0)

\* the limit of moves of the running rollout
DepthLimit == IF variant = "B" THEN 42 ELSE cfg.rollout_depth

\* C29: a rollout applies at most rollout_depth moves (42 in the random-rollout
\* variant), each a legal move of the position it is applied to; it goes on
\* while the position is not terminal, has a legal column, no transition has
\* failed and the limit is not reached, and returns at the first position
\* where one of these fails, so that a rollout from a terminal node applies no
\* move. Every turn of the loop adds one to the count of moves or raises the
\* failure flag, and a running rollout always has a turn or its return to
\* take: it returns after at most rollout_depth + 1 turns.
C29_RolloutTerminates ==
    /\ [](pc = "rollout" => ENABLED (RolloutStep \/ SimulateReturn))
    /\ [](rollout # <<>>
            => /\ rollout.max_moves = DepthLimit
               /\ rollout.moves <= DepthLimit
               /\ rollout.moves
                      = PiecesOf(rollout.current_state) - PiecesOf(tree[node].state)
               /\ is_final(tree[node].state) => rollout.moves = 0)
    /\ [][pc = "rollout"
            => IF pc' = "rollout"
               THEN /\ ~is_final(rollout.current_state)
                    /\ LegalOf(rollout.current_state) # {}
                    /\ ~rollout.broke
                    /\ rollout.moves < DepthLimit
                    /\ \/ rollout'.broke
                       \/ /\ rollout'.action \in LegalOf(rollout.current_state)
                          /\ rollout'.moves = rollout.moves + 1
               ELSE /\ pc' = "backprop"
                    /\ \/ is_final(rollout.current_state)
                       \/ LegalOf(rollout.current_state) = {}
                       \/ rollout.broke
                       \/ rollout.moves = DepthLimit
                    /\ variant # "B"
                           => rollout.current_state
                                  = RolloutEnd(tree[node].state, 0, cfg.rollout_depth,
                                               cfg.heuristics_enabled)]_vars

\* a rollout has returned at its depth limit, from a position that is not
\* terminal and has a legal column
C29_Witness ==
    /\ pc = "backprop"
    /\ rollout.moves = DepthLimit /\ DepthLimit > 0
    /\ ~is_final(rollout.current_state)
    /\ LegalOf(rollout.current_state) # {}

\* a rollout from a terminal node has returned without a move
C29_WitnessTerminal ==
    /\ pc = "backprop"
    /\ is_final(tree[node].state)
    /\ rollout.moves = 0

\* a rollout has returned before its limit, at the first terminal position
C29_WitnessEarly ==
    /\ pc = "backprop"
    /\ 0 < rollout.moves /\ rollout.moves < DepthLimit
    /\ is_final(rollout.current_state)

\* the side to move after m plies of an episode: the learner (-1) first
SideAfter(m) == IF m % 2 = 0 THEN -1 ELSE 1

\* C30: an episode of self-play plays at most 42 plies; the learner (-1) moves
\* first and the sides alternate; a ply is played only while the position is
\* not terminal and fewer than 42 plies were played, and play ends at the first
\* position where this fails; every move is a legal column of the position it
\* is applied to, and puts one piece of the mover there. Every turn of the loop
\* adds one to the count of plies, and a position where play goes on has a
\* legal column: the game ends after at most 42 turns.
C30_EpisodeTerminates ==
    /\ [](pc # "crashed")
    /\ [](pc = "ply" => PlayOver \/ LegalOf(partida.estado) # {})
    /\ [](/\ partida.movimientos <= 42
          /\ partida.movimientos = PiecesOf(partida.estado)
          /\ partida.estado.player = SideAfter(partida.movimientos))
    /\ [][pc = "ply"
            => IF pc' = "ply"
               THEN /\ ~is_final(partida.estado)
                    /\ partida.movimientos < 42
                    /\ partida'.movimientos = partida.movimientos + 1
                    /\ partida'.accion \in LegalOf(partida.estado)
                    /\ partida'.estado.board
                           = [partida.estado.board EXCEPT
                                  ![DropRow(partida.estado.board, partida'.accion)]
                                   [partida'.accion] = partida.estado.player]
               ELSE /\ pc' = "credit"
                    /\ is_final(partida.estado) \/ partida.movimientos = 42
                    /\ partida' = partida]_vars

\* a game has ended by a win before the board was full, both sides having moved
C30_Witness ==
    /\ pc = "credit"
    /\ get_winner(partida.estado) # 0
    /\ 2 <= partida.movimientos /\ partida.movimientos < 42

\* a game has ended after 42 plies
C30_WitnessFull ==
    /\ pc = "credit"
    /\ partida.movimientos = 42

\* no iteration of the simulation loop is under way: act() is at the head of an
\* iteration or past the loop, with its tree
BetweenSimulations == Len(tree) > 0 /\ pc \in {"select", "choose", "done"} /\ node \in {1, None}

\* C31: in every state of a search every node has 0 <= wins <= visits (wins2 is
\* twice wins), and once a simulation has completed every node of the tree has
\* at least one visit whenever no simulation is under way.
C31_WinsWithinVisits ==
    /\ \A k \in 1 .. Len(tree) :
           /\ 0 <= tree[k].wins2
           /\ tree[k].wins2 <= 2 * tree[k].visits
           /\ 0 <= tree[k].visits
    /\ (BetweenSimulations /\ sim >= 1)
           => \A k \in 1 .. Len(tree) : tree[k].visits >= 1

\* between simulations a node two levels below the root holds an inverted
\* reward, one node has as many wins as visits and another has none
C31_Witness ==
    /\ BetweenSimulations /\ sim >= 3
    /\ \E i, j, k \in 1 .. Len(tree) :
           /\ Depth(tree, i) = 2 /\ tree[i].visits >= 1
           /\ tree[j].visits >= 1 /\ tree[j].wins2 = 2 * tree[j].visits
           /\ tree[k].visits >= 1 /\ tree[k].wins2 = 0

\* C32: between simulations every node other than the root whose state is not
\* terminal has visits = 1 + the sum of its children's visits; the root has
\* visits = the sum of its children's visits = the number of simulations
\* completed; a node whose state is terminal has no children.
C32_VisitBalance ==
    BetweenSimulations
        => /\ tree[1].visits = sim
           /\ ChildVisits(tree, 1) = sim
           /\ \A k \in 1 .. Len(tree) :
                  /\ (k # 1 /\ ~is_terminal(tree[k]))
                         => tree[k].visits = 1 + ChildVisits(tree, k)
                  /\ is_terminal(tree[k]) => Len(tree[k].children) = 0

\* between simulations a node below the root has a child
C32_Witness ==
    /\ BetweenSimulations
    /\ \E k \in 2 .. Len(tree) :
           /\ ~is_terminal(tree[k]) /\ Len(tree[k].children) >= 1
           /\ tree[k].visits = 1 + ChildVisits(tree, k)

\* between simulations a terminal node below the root was reached more than once
C32_WitnessTerminal ==
    /\ BetweenSimulations
    /\ \E k \in 2 .. Len(tree) :
           is_terminal(tree[k]) /\ tree[k].visits >= 2 /\ Len(tree[k].children) = 0

\* the sum of the win scores (doubled) of the children of node k
RECURSIVE SumWins(_, _, _)
SumWins(t, kids, i) ==
    IF i > Len(kids) THEN 0 ELSE t[kids[i]].wins2 + SumWins(t, kids, i + 1)

ChildWins(t, k) == SumWins(t, t[k].children, 1)

\* C33: between simulations the root's win score equals the sum of its
\* children's win scores; a new tree starts at 0 and every simulation adds its
\* raw reward to both, so both are the sum of the raw rewards of the
\* simulations so far.
C33_RootWins ==
    /\ [](BetweenSimulations => tree[1].wins2 = ChildWins(tree, 1))
    /\ [][/\ pc = "idle" /\ Len(tree') > 0
                => tree'[1].wins2 = 0 /\ ChildWins(tree', 1) = 0
          /\ pc \in {"select", "simulate"}
                => /\ tree'[1].wins2 = tree[1].wins2
                   /\ ChildWins(tree', 1) = ChildWins(tree, 1)
          /\ pc = "backprop"
                => /\ tree'[1].wins2 = tree[1].wins2 + reward2
                   /\ ChildWins(tree', 1) = ChildWins(tree, 1) + reward2]_vars

\* after simulations with different rewards, one of them through a node two
\* levels below the root, the root's score is neither none nor all
C33_Witness ==
    /\ BetweenSimulations /\ sim >= 3
    /\ 0 < tree[1].wins2 /\ tree[1].wins2 < 2 * sim
    /\ tree[1].wins2 = ChildWins(tree, 1)
    /\ \E i \in 1 .. Len(tree) : Depth(tree, i) = 2 /\ tree[i].wins2 # reward2

\* the sum of the values of a table
RECURSIVE SumValues(_)
SumValues(d) ==
    IF d = {} THEN 0
    ELSE LET e == CHOOSE x \in d : TRUE IN e[2] + SumValues(d \ {e})

\* the sum over the columns of the (state, action) counters of state key sk
ActionVisits(N, sk) ==
    SumValues({<<a, QGet(N, sk \o "|" \o ToString(a))>> : a \in ColIdx})

\* C34: at every point of a training run the visit counter of every encoded
\* state is the sum over the columns of the counters of its (state, action)
\* keys, no (state, action) counter belongs to another state, and no step
\* lowers a counter of either table.
C34_CountersAgree ==
    /\ [](/\ \A e \in agente.visitas_estado : e[2] = ActionVisits(agente.N, e[1])
          /\ SumValues(agente.N) = SumValues(agente.visitas_estado))
    /\ [][/\ \A e \in agente.N : QGet(agente'.N, e[1]) >= e[2]
          /\ \A e \in agente.visitas_estado : QGet(agente'.visitas_estado, e[1]) >= e[2]]_vars

\* after two episodes a state was credited twice, through two different
\* columns, and another state once
C34_Witness ==
    /\ pc \in {"decay", "checkpoint", "save", "trained"} /\ entrenador.ep >= 2
    /\ \E e \in agente.visitas_estado :
           /\ e[2] = 2
           /\ Cardinality({a \in ColIdx : QGet(agente.N, e[1] \o "|" \o ToString(a)) = 1}) = 2
    /\ \E e \in agente.visitas_estado : e[2] = 1

\* the entries of a table that hold something else than the default value 0
Nonzero(d) == {e \in d : e[2] # 0}

\* table d2 is table d1 with entries of value 0 added under keys d1 did not have
OnlyDefaultsAdded(d1, d2) ==
    /\ d1 \subseteq d2
    /\ \A e \in d2 \ d1 : e[2] = 0 /\ e[1] \notin Keys(d1)

\* C35 as claimed: a ply of an episode, whoever selects and by whichever
\* strategy, leaves Q, the (state, action) counters and the state counters as
\* they were, key sets included.
C35_SelectionFrame ==
    [][pc = "ply"
          => /\ agente'.Q = agente.Q
             /\ agente'.N = agente.N
             /\ agente'.visitas_estado = agente.visitas_estado]_vars

\* C35: action selection keeps every entry of Q, of the (state, action) counters
\* and of the state counters with its value, and adds only entries of value 0
\* under keys the table did not have (the keys it looked up); outside credit
\* assignment no step changes any of the three tables otherwise; credit
\* assignment changes only entries of the learner's trajectory; so every entry
\* of Q with a value other than 0 and every counter above 0 belongs to a
\* (state, action) pair the learner played.
C35_SelectionAddsDefaults ==
    /\ [][/\ pc = "ply"
                => /\ OnlyDefaultsAdded(agente.Q, agente'.Q)
                   /\ OnlyDefaultsAdded(agente.N, agente'.N)
                   /\ OnlyDefaultsAdded(agente.visitas_estado, agente'.visitas_estado)
          /\ pc \notin {"ply", "credit"}
                => /\ agente'.Q = agente.Q
                   /\ agente'.N = agente.N
                   /\ agente'.visitas_estado = agente.visitas_estado
          /\ pc = "credit"
                => LET T == partida.trayectoria
                       keys == {EntryKey(T[i]) : i \in 1 .. Len(T)}
                   IN  /\ Outside(agente'.Q, keys) = Outside(agente.Q, keys)
                       /\ Outside(agente'.N, keys) = Outside(agente.N, keys)
                       /\ \A k \in keys : QGet(agente'.N, k) > 0]_vars
    /\ [](\A e \in Nonzero(agente.Q) : QGet(agente.N, e[1]) > 0)

\* in self-play a selection for the opponent has added entries of value 0 to Q
\* and to the counters, under keys of a state with player 1 to move, which the
\* learner never plays
C35_Witness ==
    /\ pc = "ply" /\ ~partida.contra_aleatorio
    /\ partida.estado.player = -1 /\ partida.movimientos >= 2
    /\ \E t \in 1 .. Len(partida.trayectoria) :
           LET after == transition(partida.trayectoria[t].estado,
                                   partida.trayectoria[t].accion)
           IN  \E c \in ColIdx :
                   \/ <<crear_clave_estado_accion(after.board, 1, c), 0>> \in agente.Q
                   \/ <<crear_clave_estado_accion(after.board, 1, c), 0>> \in agente.N

\* a table as the trainer writes it: value v under the trainer's key of triple x
WrittenByTrainer(x, v) == {<<crear_clave_estado_accion(x.board, x.player, x.action), v>>}

\* what the policy reads from table d for triple x
ReadByPolicy(d, x) ==
    qtable_get(d, codificar_estado_accion(x.board, x.player, x.action)).value

\* C36: for every board, player and action the trainer's key function and the
\* policy's return the same string; so the value the trainer writes for a
\* triple is the value the policy reads for it, and for another triple the
\* policy reads the default.
C36_SameKeys ==
    pc = "encoded"
        => /\ claves.ka = claves.ta
           /\ claves.kb = claves.tb
           /\ (claves.ta = claves.kb) <=> (claves.a = claves.b)
           /\ ReadByPolicy(WrittenByTrainer(claves.a, 700), claves.a) = 700
           /\ ReadByPolicy(WrittenByTrainer(claves.a, 700), claves.b)
                  = (IF claves.a = claves.b THEN 700 ELSE 0)

\* two triples with player 1 to move and pieces of both colours on the board,
\* one cell and the action apart, were encoded by both functions
C36_Witness ==
    /\ pc = "encoded"
    /\ claves.a.player = 1 /\ claves.b.player = 1
    /\ claves.a.action # claves.b.action
    /\ Cardinality(DifferingCells(claves.a.board, claves.b.board)) = 1
    /\ CountPieces(claves.a.board, -1) > 0 /\ CountPieces(claves.a.board, 1) > 0
    /\ claves.ka = claves.ta /\ claves.ka # claves.kb

\* the callbacks whose move is put on the board by this step
AppliedNow ==
    {t \in gui.timers \ gui'.timers :
        t.callback = "apply" /\ gui'.game_state # gui.game_state}

\* C37: whenever the GUI applies an AI move, the game on screen is the game, and
\* its board the board, that was passed to the act() call that returned the
\* move.
C37_MoveForItsBoard ==
    [][\A t \in AppliedNow :
           /\ t.game = gui.game
           /\ t.board = gui.game_state.board]_vars

\* the computations that have not put their result on the board yet: threads
\* about to start or running, and results waiting for Tk's thread
InFlight == gui.starting + Cardinality(gui.workers)

Pending == InFlight + Cardinality({t \in gui.timers : t.callback = "apply"})

\* C38: a click puts a piece on the board only when the game is not over, no AI
\* computation is pending (the flag is down and no computation is under way)
\* and the column is legal; the moves of the current game are the human's and
\* the AI's in turn, the human's first; and at most one AI computation is in
\* flight.
C38_TurnsAlternate ==
    /\ [](/\ \A i \in 1 .. Len(gui.moves) :
                 gui.moves[i] = (IF i % 2 = 1 THEN "H" ELSE "A")
          /\ InFlight <= 1)
    /\ [][gui'.clicks # gui.clicks
            => /\ ~gui.game_over
               /\ ~gui.ai_thinking
               /\ Pending = 0
               /\ \E col \in ColIdx :
                      /\ is_applicable(gui.game_state, col)
                      /\ gui'.game_state = transition(gui.game_state, col)]_vars

\* the steps a computation still has to take before it lowers the flag: the
\* thread starts, act() is called, act() returns or raises, Tk runs the
\* callback, the message box is closed
StepsLeft(w) == IF w.at = "start" THEN 5 ELSE IF w.at = "act" THEN 4 ELSE 1

RECURSIVE SumSteps(_)
SumSteps(ws) ==
    IF ws = {} THEN 0
    ELSE LET w == CHOOSE x \in ws : TRUE
         IN  StepsLeft(w) + SumSteps(ws \ {w})

Rank ==
    6 * gui.starting + SumSteps(gui.workers)
        + 2 * Cardinality(gui.timers) + Len(gui.modal)

\* something that will lower the flag is on its way, and its next step can be
\* taken
UnlockerRuns ==
    \/ gui.modal # <<>>
    \/ gui.starting > 0
    \/ \E w \in gui.workers :
           w.at = "act" => ActOutcomes(gui.selected_policy, w.board) # {}
    \/ \E t \in gui.timers : t.callback = "apply"

\* the temporal statement; it follows from C39_Unlocks under the fairness of
\* SpecGuiLive
EventuallyUnlocked == gui.ai_thinking ~> ~gui.ai_thinking

C39_WitnessRaised ==
    /\ gui.selected_policy = "faulty"
    /\ ~gui.ai_thinking /\ gui.moves = <<"H", "A", "H">>
    /\ gui.spawned = 2 /\ InFlight = 0 /\ gui.timers = {} /\ gui.modal = <<>>

\* the flag is down again after the AI's move ended the game and the box was
\* closed
C39_WitnessOver ==
    /\ gui.game_over /\ ~gui.ai_thinking
    /\ Len(gui.moves) >= 8 /\ gui.moves[Len(gui.moves)] = "A"
    /\ gui.modal = <<>>

====
